---- MODULE Spec2Model ----
(***************************************************************************)
(* Model of src/src/AudioBackend.c: the per-backend Audio_* operations on  *)
(* one struct AudioContext, the native objects they drive, and the         *)
(* context pool (AudioPool_Play / AudioPool_Close).                        *)
(*                                                                         *)
(* Exactly one backend is compiled in; the variable backend is fixed by    *)
(* Init and never changes.  Every Audio_* function is an operator that     *)
(* takes the struct (c), the native object it drives (h), the arguments    *)
(* and the outcome of the fallible native calls (o), and returns the new   *)
(* struct, the new native object, the result code and the native calls it  *)
(* issued.  Arrays are 1-based sequences: C index i is element i + 1.      *)
(***************************************************************************)
EXTENDS Integers, Sequences, FiniteSets, TLC

VARIABLES
    backend,       \* the backend compiled in
    watch,         \* the operations whose calls are recorded in last
    inputs,        \* the volumes and formats the callers pass, the contexts that fail
    music_ctx,     \* a context its owner drives directly
    music_hw,      \* the native object behind music_ctx
    context_pool,  \* the POOL_MAX_CONTEXTS pooled contexts
    pool_hw,       \* the native objects behind them
    glob,          \* the statics of the backend all contexts share
    pool_done,     \* buffers of pooled contexts the hardware has finished
    crashed,       \* a call ran into undefined behaviour
    last,          \* the most recent call, if its operation is watched
    hist,          \* what has happened to music_ctx since its last Audio_Init
    engine,        \* the statics AudioBackend_Init and AudioBackend_Free work on
    heap,          \* the chunk allocations and the chunk arrays their callers hold
    fixed,         \* the channel mask and the contexts of a fixed-channel backend
    threads        \* the caller and the tick thread of the Switch backend

vars == <<backend, watch, inputs, music_ctx, music_hw, context_pool, pool_hw, pool_done, glob,
          crashed, last, hist, engine, heap, fixed, threads>>

(***************************************************************************)
(* Program constants.                                                      *)
(***************************************************************************)
AUDIO_MAX_BUFFERS == 4
POOL_MAX_CONTEXTS == 8

\* cc_result codes of Errors.h (0xCCDED0xx), as 32-bit two's complement values
ERR_NOT_SUPPORTED == -857092094
ERR_INVALID_ARGUMENT == -857092093
ERR_OUT_OF_MEMORY == -857092092
ERR_NO_AUDIO_OUTPUT == -857092047

AL_FORMAT_MONO16 == 4353
AL_FORMAT_STEREO16 == 4355
AL_INVALID_NAME == 40961
AL_INVALID_ENUM == 40962
AL_INVALID_OPERATION == 40964
AL_OUT_OF_MEMORY == 40965

MMSYSERR_BADDEVICEID == 2
MMSYSERR_INVALHANDLE == 5
MMSYSERR_NOMEM == 7
WAVERR_STILLPLAYING == 33
WHDR_DONE == 1
WHDR_PREPARED == 2

SL_RESULT_MEMORY_FAILURE == 3
SL_RESULT_BUFFER_INSUFFICIENT == 7
MCIERR_OUT_OF_MEMORY == 5006

(***************************************************************************)
(* Bounds of the model.                                                    *)
(***************************************************************************)
\* largest buffer count handed to Audio_Init by the direct caller
MaxBuffers == 2
\* buffers of pooled contexts the hardware finishes in one behaviour
MaxPoolDone == 1

(***************************************************************************)
(* Inputs.                                                                 *)
(***************************************************************************)
\* PCM chunks the caller owns, as sequences of 16-bit samples
ChunkSamples ==
    << <<-250, 30>>,
       <<-32768, 32767, -1>>,
       <<1, -1, 100, -100, 32767, -32768, 7, -7>>,
       <<-32768, 32767, -1, 1, 99, -99, 250, -250, 3>> >>
\* the chunks the caller queues in the specification being checked
Chunks == inputs.chunks
ChunkSize(k) == 2 * Len(ChunkSamples[k])

\* <<channels, sampleRate, playbackRate>> of the sounds played
Formats == {<<1, 22050, 100>>, <<2, 22050, 150>>, <<1, 11025, 75>>}
Volumes == {80, 100}

\* outcome of the fallible native calls of one Audio_* call: the at-th such
\* call fails with err (at = 0: none fails); devs is waveOutGetNumDevs();
\* move says whether a realloc moves the block;
\* junk is the value an uninitialised int happens to hold
NoFail == [at |-> 0, err |-> 0, devs |-> 1, move |-> FALSE, junk |-> 0]
Failures(n, errs) == [at : 1..n, err : errs, devs : {1}, move : {FALSE}, junk : {0}]

(***************************************************************************)
(* Common helpers.                                                         *)
(***************************************************************************)
\* C integer division, truncating toward zero
CDiv(a, b) == IF a >= 0 THEN a \div b ELSE -((-a) \div b)

\* the division done before the multiplication
AdjustSampleRate_DivFirst(sampleRate, playbackRate) ==
    CDiv(sampleRate, 100) * playbackRate

Audio_AdjustSampleRate(sampleRate, playbackRate) ==
    CDiv(sampleRate * playbackRate, 100)

\* what a call returns: the struct, the native object, the result code, the
\* inUse written (Audio_Poll), the native calls made, and ub: the call ran
\* into undefined behaviour (a null interface was called through)
Ret(c, h, res, calls) ==
    [c |-> c, h |-> h, res |-> res, inUse |-> 0, calls |-> calls, ub |-> FALSE]
RetPoll(c, h, res, inUse, calls) ==
    [c |-> c, h |-> h, res |-> res, inUse |-> inUse, calls |-> calls, ub |-> FALSE]
Undefined(c, h, calls) ==
    [c |-> c, h |-> h, res |-> 0, inUse |-> 0, calls |-> calls, ub |-> TRUE]

ZeroArray == [i \in 1..AUDIO_MAX_BUFFERS |-> 0]

(***************************************************************************)
(* OpenAL backend.  The native object is the source ctx->source names:     *)
(* live (the name is valid), queued (buffer names in queue order),         *)
(* processed (how many at the head the source has played), playing, gain.  *)
(***************************************************************************)
AL_ZeroCtx ==
    [source |-> 0, buffers |-> ZeroArray, freeIDs |-> ZeroArray,
     count |-> 0, free |-> 0, sampleRate |-> 0, format |-> 0]

AL_ZeroHw == [live |-> FALSE, queued |-> <<>>, processed |-> 0, playing |-> FALSE, gain |-> 100]

\* fallible native calls per operation, and the outcomes drawn for them
AL_Outcomes(op) ==
    LET n == CASE op \in {"Init", "QueueChunk", "Poll"} -> 2
               [] op = "Play" -> 1
               [] OTHER -> 0
    IN  {NoFail} \cup Failures(n, {AL_OUT_OF_MEMORY})

\* Audio_Init: fallible calls 1 = alGenSources, 2 = alGenBuffers
AL_Init(c, h, buffers, o) ==
    LET c1 == [c EXCEPT !.source = 0, !.count = buffers]
        c2 == [c1 EXCEPT !.source = 1]
        h2 == [AL_ZeroHw EXCEPT !.live = TRUE]
        c3 == [c2 EXCEPT !.buffers = [i \in 1..AUDIO_MAX_BUFFERS |->
                                         IF i <= buffers THEN i ELSE c.buffers[i]]]
        c4 == [c3 EXCEPT !.freeIDs = [i \in 1..AUDIO_MAX_BUFFERS |->
                                         IF i <= buffers THEN c3.buffers[i] ELSE c.freeIDs[i]],
                         !.free = buffers]
    IN  IF o.at = 1 THEN Ret(c1, AL_ZeroHw, o.err, <<"alGenSources">>)
        ELSE IF o.at = 2 THEN Ret(c2, h2, o.err, <<"alGenSources", "alGenBuffers">>)
        ELSE IF buffers > AUDIO_MAX_BUFFERS
             THEN Undefined(c2, h2, <<"alGenSources", "alGenBuffers">>)
        ELSE Ret(c4, h2, 0, <<"alGenSources", "alGenBuffers">>)

AL_ClearFree(c) == [c EXCEPT !.freeIDs = ZeroArray, !.free = 0]

AL_Close(c, h, o) ==
    IF c.source # 0
    THEN Ret([AL_ClearFree([c EXCEPT !.source = 0]) EXCEPT !.count = 0], AL_ZeroHw, 0,
             <<"alSourceStop", "alDeleteSources", "alDeleteBuffers">>)
    ELSE Ret([AL_ClearFree(c) EXCEPT !.count = 0], h, 0, <<>>)

AL_SetFormat(c, h, channels, sampleRate, playbackRate, o) ==
    LET c1 == [c EXCEPT !.sampleRate = Audio_AdjustSampleRate(sampleRate, playbackRate)]
    IN  IF channels = 1 THEN Ret([c1 EXCEPT !.format = AL_FORMAT_MONO16], h, 0, <<>>)
        ELSE IF channels = 2 THEN Ret([c1 EXCEPT !.format = AL_FORMAT_STEREO16], h, 0, <<>>)
        ELSE Ret(c1, h, ERR_INVALID_ARGUMENT, <<>>)

AL_SetVolume(c, h, volume, o) ==
    Ret(c, IF h.live /\ c.source # 0 THEN [h EXCEPT !.gain = volume] ELSE h, 0, <<"alSourcef">>)

\* Audio_QueueChunk: fallible calls 1 = alBufferData, 2 = alSourceQueueBuffers
AL_QueueChunk(c, h, chunk, o) ==
    IF c.free = 0 THEN Ret(c, h, ERR_INVALID_ARGUMENT, <<>>)
    ELSE
    LET buffer == c.freeIDs[c.free]
        c1 == [c EXCEPT !.free = c.free - 1]
        h1 == [h EXCEPT !.queued = Append(h.queued, buffer)]
    IN  IF o.at = 1 THEN Ret(c1, h, o.err, <<"alBufferData">>)
        ELSE IF buffer = 0 THEN Ret(c1, h, AL_INVALID_NAME, <<"alBufferData">>)
        ELSE IF c.format = 0 THEN Ret(c1, h, AL_INVALID_ENUM, <<"alBufferData">>)
        ELSE IF o.at = 2 THEN Ret(c1, h, o.err, <<"alBufferData", "alSourceQueueBuffers">>)
        ELSE IF ~(h.live /\ c.source # 0)
             THEN Ret(c1, h, AL_INVALID_NAME, <<"alBufferData", "alSourceQueueBuffers">>)
        ELSE Ret(c1, h1, 0, <<"alBufferData", "alSourceQueueBuffers">>)

\* Audio_Play: fallible call 1 = alSourcePlay
AL_Play(c, h, o) ==
    IF o.at = 1 THEN Ret(c, h, o.err, <<"alSourcePlay">>)
    ELSE IF ~(h.live /\ c.source # 0) THEN Ret(c, h, AL_INVALID_NAME, <<"alSourcePlay">>)
    ELSE Ret(c, [h EXCEPT !.playing = h.processed < Len(h.queued)], 0, <<"alSourcePlay">>)

\* Audio_Poll: fallible calls 1 = alGetSourcei, 2 = alSourceUnqueueBuffers
AL_Poll(c, h, o) ==
    IF c.source = 0 THEN RetPoll(c, h, 0, 0, <<>>)
    ELSE IF o.at = 1 THEN RetPoll(c, h, o.err, 0, <<"alGetSourcei">>)
    ELSE IF h.processed > 0
    THEN IF o.at = 2
         THEN RetPoll(c, h, o.err, 0, <<"alGetSourcei", "alSourceUnqueueBuffers">>)
         ELSE IF c.free >= AUDIO_MAX_BUFFERS
         THEN Undefined(c, h, <<"alGetSourcei", "alSourceUnqueueBuffers">>)
         ELSE LET buffer == Head(h.queued)
                  h1 == [h EXCEPT !.queued = Tail(h.queued), !.processed = h.processed - 1]
                  c1 == [c EXCEPT !.freeIDs[c.free + 1] = buffer, !.free = c.free + 1]
              IN  RetPoll(c1, h1, 0, c1.count - c1.free,
                          <<"alGetSourcei", "alSourceUnqueueBuffers">>)
    ELSE RetPoll(c, h, 0, c.count - c.free, <<"alGetSourcei">>)

\* the source plays the next pending buffer to its end; it stops when none is left
AL_Complete(h) ==
    [h EXCEPT !.processed = h.processed + 1,
              !.playing = h.processed + 1 < Len(h.queued)]

AL_CanComplete(h) == h.live /\ h.playing /\ h.processed < Len(h.queued)

AL_Free(c) == c.free
\* buffers the source has not played to the end
AL_Unfinished(h) == Len(h.queued) - h.processed

(***************************************************************************)
(* Software volume (AUDIO_COMMON_VOLUME).                                  *)
(***************************************************************************)
\* the value an int has once stored in a cc_int16
ToInt16(x) == ((x + 32768) % 65536) - 32768

\* a scaling whose division rounds toward minus infinity
ScaleSample_Floor(s, volume) == ToInt16((s * volume) \div 100)

\* samples[0] = (samples[0] * volume / 100): int arithmetic, int16 store
ScaleSample(s, volume) == ToInt16(CDiv(s * volume, 100))

\* a scaling that stops after the blocks of 8 samples
ApplyVolume_NoTail(samples, count, volume) ==
    [k \in DOMAIN samples |->
        IF k <= count - (count % 8) THEN CDiv(samples[k] * volume, 100) ELSE samples[k]]

\* the 8-sample unrolled loop, then the remainder loop
ApplyVolume(samples, count, volume) ==
    LET whole == count - (count % 8)
        RECURSIVE Unrolled(_, _)
        Unrolled(s, i) ==
            IF i < whole
            THEN Unrolled([k \in DOMAIN s |->
                              IF k - 1 >= i /\ k - 1 < i + 8
                              THEN ScaleSample(s[k], volume) ELSE s[k]], i + 8)
            ELSE s
        RECURSIVE Remainder(_, _)
        Remainder(s, i) ==
            IF i < count
            THEN Remainder([s EXCEPT ![i + 1] = ScaleSample(s[i + 1], volume)], i + 1)
            ELSE s
    IN  Remainder(Unrolled(samples, 0), whole)

NullData == [kind |-> "null", at |-> 0]
ChunkData(k) == [kind |-> "chunk", at |-> k]
TmpData(p) == [kind |-> "tmp", at |-> p]

\* an adjustment that scales the caller's buffer where it lies
AdjustSound_InPlace(c, h, chunk, o) ==
    [c |-> c, h |-> h, data |-> ChunkData(chunk), size |-> ChunkSize(chunk), ok |-> TRUE,
     calls |-> <<>>, ub |-> FALSE,
     src |-> IF c.volume >= 100 THEN ChunkSamples[chunk]
             ELSE ApplyVolume(ChunkSamples[chunk], Len(ChunkSamples[chunk]), c.volume)]

\* a scratch block resized to every chunk
AdjustSound_Fit(c, h, chunk, o) ==
    LET src_size == ChunkSize(chunk)
        audio == IF c._tmpData = 0 THEN 1 ELSE c._tmpData
        scaled == ApplyVolume(ChunkSamples[chunk], src_size \div 2, c.volume)
    IN  IF c.volume >= 100
        THEN [c |-> c, h |-> h, data |-> ChunkData(chunk), size |-> src_size, ok |-> TRUE,
              calls |-> <<>>, ub |-> FALSE, src |-> ChunkSamples[chunk]]
        ELSE [c |-> [c EXCEPT !._tmpData = audio, !._tmpSize = src_size],
              h |-> [h EXCEPT !.tmp = scaled], data |-> TmpData(audio), size |-> src_size,
              ok |-> TRUE,
              calls |-> IF c._tmpSize = src_size THEN <<>>
                        ELSE IF c._tmpData # 0 THEN <<"Mem_TryRealloc">>
                        ELSE <<"Mem_TryAlloc">>,
              ub |-> FALSE, src |-> ChunkSamples[chunk]]

\* AudioBase_AdjustSound: the struct, the scratch block (h.tmp, its samples),
\* the pointer and size handed on, the allocator calls made, and src, the
\* samples in the caller's buffer after the call (Mem_Copy and ApplyVolume
\* write through audio = ctx->_tmpData only).  o.at = 3: the allocator
\* returns NULL; the test that follows is on data, the address of the
\* caller's pointer, which is never NULL, so NULL and the new size are
\* stored and Mem_Copy writes through NULL (ub)
AudioBase_AdjustSound(c, h, chunk, o) ==
    LET src_size == ChunkSize(chunk)
        grow == c._tmpSize < src_size
        nomem == grow /\ o.at = 3
        audio == IF ~grow THEN c._tmpData
                 ELSE IF nomem THEN 0
                 ELSE IF c._tmpData = 0 THEN 1
                 ELSE IF o.move THEN 3 - c._tmpData ELSE c._tmpData
        c1 == IF grow THEN [c EXCEPT !._tmpData = audio, !._tmpSize = src_size] ELSE c
        old == [i \in 1..(c1._tmpSize \div 2) |-> IF i <= Len(h.tmp) THEN h.tmp[i] ELSE 0]
        copied == [i \in 1..(c1._tmpSize \div 2) |->
                      IF i <= src_size \div 2 THEN ChunkSamples[chunk][i] ELSE old[i]]
        scaled == ApplyVolume(copied, src_size \div 2, c.volume)
        alloc == IF ~grow THEN <<>>
                 ELSE IF c._tmpData # 0 THEN <<"Mem_TryRealloc">> ELSE <<"Mem_TryAlloc">>
    IN  IF c.volume >= 100
        THEN [c |-> c, h |-> h, data |-> ChunkData(chunk), size |-> src_size, ok |-> TRUE,
              calls |-> <<>>, ub |-> FALSE, src |-> ChunkSamples[chunk]]
        ELSE IF nomem
        THEN [c |-> c1, h |-> h, data |-> ChunkData(chunk), size |-> src_size, ok |-> TRUE,
              calls |-> alloc, ub |-> TRUE, src |-> ChunkSamples[chunk]]
        ELSE [c |-> c1, h |-> [h EXCEPT !.tmp = scaled], data |-> TmpData(audio),
              size |-> src_size, ok |-> TRUE, calls |-> alloc, ub |-> FALSE,
              src |-> ChunkSamples[chunk]]

AudioBase_Clear(c) ==
    [c EXCEPT !.count = 0, !.channels = 0, !.sampleRate = 0, !._tmpData = 0, !._tmpSize = 0]

(***************************************************************************)
(* WinMM backend.  The native object is the waveOut device of ctx->handle: *)
(* open, fmt (the format it was opened with), queue (indices of the        *)
(* headers written to it, in order), lost (headers still queued on a       *)
(* device whose handle the struct dropped), tmp (the samples in the        *)
(* scratch block _tmpData points to).                                      *)
(***************************************************************************)
WM_ZeroHeader == [dwFlags |-> {}, lpData |-> NullData]

WM_ZeroCtx ==
    [handle |-> 0, headers |-> [i \in 1..AUDIO_MAX_BUFFERS |-> WM_ZeroHeader],
     count |-> 0, channels |-> 0, sampleRate |-> 0, volume |-> 0,
     _tmpSize |-> 0, _tmpData |-> 0]

WM_ZeroHw ==
    [open |-> FALSE, fmt |-> <<0, 0>>, queue |-> <<>>, lost |-> {}, tmp |-> <<>>]

\* fallible native calls per operation, and the outcomes drawn for them
WM_Outcomes(op) ==
    LET n == CASE op = "QueueChunk" -> 2
               [] op \in {"SetFormat", "Poll", "Close"} -> 1
               [] OTHER -> 0
        nodev == [NoFail EXCEPT !.at = 1, !.err = MMSYSERR_BADDEVICEID, !.devs = 0]
    IN  {NoFail} \cup Failures(n, {MMSYSERR_NOMEM})
            \cup (IF op = "SetFormat"
                  THEN {nodev, [nodev EXCEPT !.devs = 1], [nodev EXCEPT !.err = MMSYSERR_NOMEM]}
                  ELSE {})
            \cup (IF op = "QueueChunk" THEN {[NoFail EXCEPT !.move = TRUE]} ELSE {})
            \cup (IF op = "QueueChunk" /\ inputs.nomem
                  THEN {[NoFail EXCEPT !.at = 3, !.err = ERR_OUT_OF_MEMORY]} ELSE {})

SeqToSet(s) == {s[i] : i \in DOMAIN s}

WM_Init(c, h, buffers, o) ==
    IF buffers > AUDIO_MAX_BUFFERS THEN Undefined(c, h, <<>>)
    ELSE
    Ret([c EXCEPT !.headers = [i \in 1..AUDIO_MAX_BUFFERS |->
                                  IF i <= buffers
                                  THEN [c.headers[i] EXCEPT !.dwFlags = {WHDR_DONE}]
                                  ELSE c.headers[i]],
                  !.count = buffers, !.volume = 100], h, 0, <<>>)

\* Audio_Reset: waveOutClose refuses a device that still has buffers queued
WM_Reset(c, h) ==
    IF c.handle = 0 THEN Ret(c, h, 0, <<>>)
    ELSE IF h.queue # <<>>
    THEN Ret([c EXCEPT !.handle = 0],
             [h EXCEPT !.open = FALSE, !.queue = <<>>,
                       !.lost = h.lost \cup SeqToSet(h.queue)],
             WAVERR_STILLPLAYING, <<"waveOutClose">>)
    ELSE Ret([c EXCEPT !.handle = 0], [h EXCEPT !.open = FALSE, !.fmt = <<0, 0>>], 0,
             <<"waveOutClose">>)

\* an Audio_SetFormat that reopens the device whatever the current format
WM_SetFormat_Always(c, h, channels, sampleRate0, playbackRate, o) ==
    LET sampleRate == Audio_AdjustSampleRate(sampleRate0, playbackRate)
        r == WM_Reset([c EXCEPT !.channels = channels, !.sampleRate = sampleRate], h)
    IN  IF r.res # 0 THEN r
        ELSE Ret([r.c EXCEPT !.handle = 1],
                 [r.h EXCEPT !.open = TRUE, !.fmt = <<channels, sampleRate>>], 0,
                 Append(r.calls, "waveOutOpen"))

\* Audio_SetFormat: fallible call 1 = waveOutOpen
WM_SetFormat(c, h, channels, sampleRate0, playbackRate, o) ==
    LET sampleRate == Audio_AdjustSampleRate(sampleRate0, playbackRate)
        c1 == [c EXCEPT !.channels = channels, !.sampleRate = sampleRate]
        r == WM_Reset(c1, h)
        open == Append(r.calls, "waveOutOpen")
    IN  IF c.channels = channels /\ c.sampleRate = sampleRate THEN Ret(c, h, 0, <<>>)
        ELSE IF r.res # 0 THEN r
        ELSE IF o.at = 1
        THEN IF o.err = MMSYSERR_BADDEVICEID /\ o.devs = 0
             THEN Ret(r.c, r.h, ERR_NO_AUDIO_OUTPUT, Append(open, "waveOutGetNumDevs"))
             ELSE Ret(r.c, r.h, o.err, open)
        ELSE Ret([r.c EXCEPT !.handle = 1],
                 [r.h EXCEPT !.open = TRUE, !.fmt = <<channels, sampleRate>>], 0, open)

WM_SetVolume(c, h, volume, o) == Ret([c EXCEPT !.volume = volume], h, 0, <<>>)

\* a search that takes the first header whether or not it is done
WM_FirstSlot(c) == IF c.count > 0 THEN 1 ELSE 0

\* lowest index below ctx->count whose header has WHDR_DONE set; 0 if none
WM_DoneSlot(c) ==
    LET done == {i \in 1..AUDIO_MAX_BUFFERS : i <= c.count /\ WHDR_DONE \in c.headers[i].dwFlags}
    IN  IF done = {} THEN 0 ELSE CHOOSE i \in done : \A j \in done : i <= j

\* Audio_QueueChunk: fallible calls 1 = waveOutPrepareHeader, 2 = waveOutWrite,
\* 3 = the Mem_TryAlloc or Mem_TryRealloc of AudioBase_AdjustSound
WM_QueueChunk(c, h, chunk, o) ==
    LET a == AudioBase_AdjustSound(c, h, chunk, o)
        i == WM_DoneSlot(a.c)
        c1 == [a.c EXCEPT !.headers[i] = [dwFlags |-> {}, lpData |-> a.data]]
        c2 == [c1 EXCEPT !.headers[i].dwFlags = {WHDR_PREPARED}]
        busy == i \in SeqToSet(a.h.queue) \cup a.h.lost
        prep == Append(a.calls, "waveOutPrepareHeader")
        wrt == Append(prep, "waveOutWrite")
    IN  IF a.ub THEN Undefined(a.c, a.h, a.calls)
        ELSE IF ~a.ok THEN Ret(a.c, a.h, ERR_OUT_OF_MEMORY, a.calls)
        ELSE IF i = 0 THEN Ret(a.c, a.h, ERR_INVALID_ARGUMENT, a.calls)
        ELSE IF c1.handle = 0 \/ ~a.h.open THEN Ret(c1, a.h, MMSYSERR_INVALHANDLE, prep)
        ELSE IF busy THEN Ret(c1, a.h, WAVERR_STILLPLAYING, prep)
        ELSE IF o.at = 1 THEN Ret(c1, a.h, o.err, prep)
        ELSE IF o.at = 2 THEN Ret(c2, a.h, o.err, wrt)
        ELSE Ret(c2, [a.h EXCEPT !.queue = Append(a.h.queue, i)], 0, wrt)

WM_Play(c, h, o) == Ret(c, h, 0, <<>>)

\* Audio_Poll: fallible call 1 = the first waveOutUnprepareHeader
RECURSIVE WM_PollFrom(_, _, _, _, _, _)
WM_PollFrom(c, h, i, count, calls, o) ==
    IF i > c.count \/ i > AUDIO_MAX_BUFFERS THEN RetPoll(c, h, 0, count, calls)
    ELSE IF WHDR_DONE \notin c.headers[i].dwFlags
    THEN WM_PollFrom(c, h, i + 1, count + 1, calls, o)
    ELSE IF WHDR_PREPARED \notin c.headers[i].dwFlags
    THEN WM_PollFrom(c, h, i + 1, count, calls, o)
    ELSE IF c.handle = 0 \/ ~h.open
    THEN RetPoll(c, h, MMSYSERR_INVALHANDLE, count, Append(calls, "waveOutUnprepareHeader"))
    ELSE IF o.at = 1 /\ calls = <<>>
    THEN RetPoll(c, h, o.err, count, Append(calls, "waveOutUnprepareHeader"))
    ELSE WM_PollFrom([c EXCEPT !.headers[i].dwFlags = @ \ {WHDR_PREPARED}], h, i + 1, count,
                     Append(calls, "waveOutUnprepareHeader"), o)

WM_Poll(c, h, o) == WM_PollFrom(c, h, 1, 0, <<>>, o)

\* waveOutReset: every buffer queued on the device is returned as done
WM_Stop(c, h) ==
    Ret([c EXCEPT !.headers = [i \in 1..AUDIO_MAX_BUFFERS |->
                                  IF i \in SeqToSet(h.queue)
                                  THEN [c.headers[i] EXCEPT !.dwFlags = @ \cup {WHDR_DONE}]
                                  ELSE c.headers[i]]],
        [h EXCEPT !.queue = <<>>], 0, <<"waveOutReset">>)

WM_Close(c, h, o) ==
    IF c.handle # 0
    THEN LET s == WM_Stop(c, h)
             p == WM_Poll(s.c, s.h, o)
             r == WM_Reset(p.c, p.h)
         IN  Ret(AudioBase_Clear(r.c), [r.h EXCEPT !.tmp = <<>>], 0,
                 s.calls \o p.calls \o r.calls)
    ELSE Ret(AudioBase_Clear(c), [h EXCEPT !.tmp = <<>>], 0, <<>>)

\* the device finishes the buffer at the head of its queue, or one left on a
\* device the struct no longer has a handle of
WM_CanComplete(h) == h.queue # <<>> \/ h.lost # {}

WM_Complete(c, h, i) ==
    [c |-> [c EXCEPT !.headers[i].dwFlags = @ \cup {WHDR_DONE}],
     h |-> IF h.queue # <<>> /\ Head(h.queue) = i
           THEN [h EXCEPT !.queue = Tail(h.queue)]
           ELSE [h EXCEPT !.lost = @ \ {i}]]

WM_Completable(h) == (IF h.queue # <<>> THEN {Head(h.queue)} ELSE {}) \cup h.lost

WM_Free(c) ==
    Cardinality({i \in 1..AUDIO_MAX_BUFFERS : i <= c.count /\ WHDR_DONE \in c.headers[i].dwFlags})
\* buffers a device still holds
WM_Unfinished(h) == Len(h.queue) + Cardinality(h.lost)

(***************************************************************************)
(* OpenSL ES backend.  The struct holds the player object and its four      *)
(* interfaces (0 = NULL).  The native object is the audio player: exists,  *)
(* fmt (the format it was created with), numBuffers (its queue capacity),  *)
(* n (buffers enqueued and not yet played), playing, rate, volume.         *)
(***************************************************************************)
SL_ZeroCtx ==
    [count |-> 0, volume |-> 0, channels |-> 0, sampleRate |-> 0, playerObject |-> 0,
     playerPlayer |-> 0, playerQueue |-> 0, playerRate |-> 0, playerVolume |-> 0]

SL_ZeroHw ==
    [exists |-> FALSE, fmt |-> <<0, 0>>, numBuffers |-> 0, n |-> 0, playing |-> FALSE,
     rate |-> 0, volume |-> 0]

\* fallible native calls per operation, and the outcomes drawn for them
SL_Outcomes(op) ==
    LET n == CASE op = "SetFormat" -> 3
               [] op \in {"QueueChunk", "Poll"} -> 1
               [] OTHER -> 0
    IN  {NoFail} \cup Failures(n, {SL_RESULT_MEMORY_FAILURE})

SL_Init(c, h, buffers, o) == Ret([c EXCEPT !.count = buffers, !.volume = 100], h, 0, <<>>)

SL_Stop(c, h) ==
    IF c.playerPlayer = 0 THEN Ret(c, h, 0, <<>>)
    ELSE Ret(c, [h EXCEPT !.n = 0, !.playing = FALSE], 0, <<"Clear", "SetPlayState">>)

SL_Reset(c, h) ==
    IF c.playerObject = 0 THEN Ret(c, h, 0, <<>>)
    ELSE Ret([c EXCEPT !.playerObject = 0, !.playerPlayer = 0, !.playerQueue = 0,
                       !.playerRate = 0, !.playerVolume = 0], SL_ZeroHw, 0, <<"Destroy">>)

SL_Close(c, h, o) ==
    LET s == SL_Stop(c, h)
        r == SL_Reset(s.c, s.h)
    IN  Ret([r.c EXCEPT !.count = 0, !.channels = 0, !.sampleRate = 0], r.h, 0,
            s.calls \o r.calls)

SL_UpdateVolume(c, h) ==
    IF c.playerVolume = 0 THEN Ret(c, h, 0, <<>>)
    ELSE Ret(c, [h EXCEPT !.volume = c.volume], 0, <<"SetVolumeLevel">>)

\* RecreatePlayer: fallible calls 1 = CreateAudioPlayer, 2 = Realize,
\* 3 = the first GetInterface
SL_RecreatePlayer(c, h, channels, sampleRate, o) ==
    LET r == SL_Reset([c EXCEPT !.channels = channels, !.sampleRate = sampleRate], h)
        c1 == [r.c EXCEPT !.playerObject = 1]
        h1 == [SL_ZeroHw EXCEPT !.exists = TRUE, !.fmt = <<channels, sampleRate>>,
                                !.numBuffers = c.count]
        c2 == [c1 EXCEPT !.playerPlayer = 1, !.playerQueue = 1, !.playerRate = 1,
                         !.playerVolume = 1]
        create == Append(r.calls, "CreateAudioPlayer")
        realize == Append(create, "Realize")
        gets == realize \o <<"GetInterface", "GetInterface", "GetInterface", "GetInterface">>
        v == SL_UpdateVolume(c2, h1)
    IN  IF o.at = 1 THEN Ret(r.c, r.h, o.err, create)
        ELSE IF o.at = 2 THEN Ret(c1, h1, o.err, realize)
        ELSE IF o.at = 3 THEN Ret(c1, h1, o.err, Append(realize, "GetInterface"))
        ELSE Ret(v.c, v.h, 0, gets \o v.calls)

\* Audio_SetFormat compares the raw sample rate; the playback rate goes to
\* SetRate in per mille, through playerRate whether or not it is NULL
SL_SetFormat(c, h, channels, sampleRate, playbackRate, o) ==
    LET differs == c.channels # channels \/ c.sampleRate # sampleRate
        r == IF differs THEN SL_RecreatePlayer(c, h, channels, sampleRate, o)
             ELSE Ret(c, h, 0, <<>>)
    IN  IF r.res # 0 THEN r
        ELSE IF r.c.playerRate = 0 THEN Undefined(r.c, r.h, r.calls)
        ELSE Ret(r.c, [r.h EXCEPT !.rate = playbackRate * 10], 0, Append(r.calls, "SetRate"))

SL_SetVolume(c, h, volume, o) ==
    LET v == SL_UpdateVolume([c EXCEPT !.volume = volume], h)
    IN  Ret(v.c, v.h, 0, v.calls)

\* Audio_QueueChunk: fallible call 1 = Enqueue, which refuses a full queue
SL_QueueChunk(c, h, chunk, o) ==
    IF c.playerQueue = 0 THEN Undefined(c, h, <<>>)
    ELSE IF h.n >= h.numBuffers THEN Ret(c, h, SL_RESULT_BUFFER_INSUFFICIENT, <<"Enqueue">>)
    ELSE IF o.at = 1 THEN Ret(c, h, o.err, <<"Enqueue">>)
    ELSE Ret(c, [h EXCEPT !.n = h.n + 1], 0, <<"Enqueue">>)

SL_Play(c, h, o) ==
    IF c.playerPlayer = 0 THEN Undefined(c, h, <<>>)
    ELSE Ret(c, [h EXCEPT !.playing = TRUE], 0, <<"SetPlayState">>)

\* Audio_Poll: fallible call 1 = GetState, which leaves state.count 0 on failure
SL_Poll(c, h, o) ==
    IF c.playerQueue = 0 THEN RetPoll(c, h, 0, 0, <<>>)
    ELSE IF o.at = 1 THEN RetPoll(c, h, o.err, 0, <<"GetState">>)
    ELSE RetPoll(c, h, 0, h.n, <<"GetState">>)

SL_CanComplete(h) == h.exists /\ h.playing /\ h.n > 0
SL_Complete(h) == [h EXCEPT !.n = h.n - 1]

SL_Free(c, h) == IF c.playerQueue = 0 THEN c.count ELSE h.numBuffers - h.n
SL_Unfinished(h) == h.n

(***************************************************************************)
(* OS/2 backend.  The struct has count and volume only; the format lives   *)
(* in the one devicecontext all contexts share (g).                        *)
(***************************************************************************)
OS2_ZeroCtx == [count |-> 0, volume |-> 0]
OS2_ZeroHw == [none |-> TRUE]
\* devicecontext.stMCIMixSetup as AudioBackend_Init leaves it
OS2_Device == [ulSamplesPerSec |-> 48000, ulChannels |-> 2, ulBitsPerSample |-> 16]

\* the int the caller passed to Audio_Poll is never written: it keeps whatever
\* it held
OS2_Outcomes(op) ==
    CASE op = "SetFormat" -> {NoFail} \cup Failures(2, {MCIERR_OUT_OF_MEMORY})
      [] op = "Poll" -> {[NoFail EXCEPT !.junk = j] : j \in 0..1}
      [] OTHER -> {NoFail}

OS2_Init(c, h, buffers, o) == Ret(c, h, 0, <<>>)
OS2_Close(c, h, o) == Ret(c, h, 0, <<>>)

\* Audio_SetFormat: fallible calls 1 = MCI_MIXSETUP_DEINIT, 2 = MCI_MIXSETUP_INIT
OS2_SetFormat(c, h, g, channels, sampleRate, playbackRate, o) ==
    LET newsamplerate == Audio_AdjustSampleRate(sampleRate, playbackRate)
        deinit == IF g.ulBitsPerSample # 0 THEN <<"MCI_MIXSETUP_DEINIT">> ELSE <<>>
        g1 == [ulSamplesPerSec |-> newsamplerate, ulChannels |-> channels,
               ulBitsPerSample |-> 16]
    IN  IF g.ulSamplesPerSec = newsamplerate /\ g.ulChannels = channels
        THEN [r |-> Ret(c, h, 0, <<>>), g |-> g]
        ELSE IF g.ulBitsPerSample # 0 /\ o.at = 1
        THEN [r |-> Ret(c, h, o.err, deinit), g |-> g]
        ELSE IF o.at = 2
        THEN [r |-> Ret(c, h, o.err, Append(deinit, "MCI_MIXSETUP_INIT")),
              g |-> [g1 EXCEPT !.ulBitsPerSample = 0]]
        ELSE [r |-> Ret(c, h, 0, Append(deinit, "MCI_MIXSETUP_INIT")), g |-> g1]

OS2_SetVolume(c, h, volume, o) == Ret([c EXCEPT !.volume = volume], h, 0, <<>>)
OS2_QueueChunk(c, h, chunk, o) == Ret(c, h, 0, <<>>)
OS2_Play(c, h, o) == Ret(c, h, 0, <<>>)
OS2_Poll(c, h, o) == RetPoll(c, h, 0, o.junk, <<>>)

(***************************************************************************)
(* The Null backend.  Audio_Poll does not write *inUse: the caller reads   *)
(* what its variable held (junk).                                          *)
(***************************************************************************)
Null_Outcomes(op) == IF op = "Poll" THEN {[NoFail EXCEPT !.junk = j] : j \in 0..1} ELSE {NoFail}

Null_Init(c, h, buffers, o) == Ret(c, h, ERR_NOT_SUPPORTED, <<>>)
Null_Close(c, h, o) == Ret(c, h, 0, <<>>)
Null_SetFormat(c, h, channels, sampleRate, playbackRate, o) == Ret(c, h, ERR_NOT_SUPPORTED, <<>>)
Null_SetVolume(c, h, volume, o) == Ret(c, h, 0, <<>>)
Null_QueueChunk(c, h, chunk, o) == Ret(c, h, ERR_NOT_SUPPORTED, <<>>)
Null_Play(c, h, o) == Ret(c, h, ERR_NOT_SUPPORTED, <<>>)
Null_Poll(c, h, o) == RetPoll(c, h, ERR_NOT_SUPPORTED, o.junk, <<>>)

(***************************************************************************)
(* The callback-driven ring backends.  A chunk is named by its number in   *)
(* the order Audio_QueueChunk accepted it (0: no data).  handed is the set *)
(* of chunks whose data the hardware was given, accepted the number of     *)
(* chunks accepted so far.                                                 *)
(*                                                                         *)
(* GC/Wii: the native object is the ASND voice: working (it has data to    *)
(* play), chained (a second buffer was added and not started yet),         *)
(* callback (MusicCallback was installed by ASND_SetVoice).                *)
(***************************************************************************)
\* chunks the caller queues in one behaviour
MaxChunks == 5

GC_ZeroBuf == [available |-> FALSE, samples |-> 0]

GC_ZeroCtx ==
    [chanID |-> 0, count |-> 0, bufHead |-> 0, makeAvailable |-> FALSE,
     bufs |-> [i \in 1..AUDIO_MAX_BUFFERS |-> GC_ZeroBuf]]

GC_ZeroHw ==
    [working |-> FALSE, chained |-> FALSE, callback |-> FALSE, handed |-> {}, accepted |-> 0]

\* a result is [c, h, res, inUse, ub]
RingRet(c, h, res, inUse) == [c |-> c, h |-> h, res |-> res, inUse |-> inUse, ub |-> FALSE]
RingUndefined(c, h) == [c |-> c, h |-> h, res |-> 0, inUse |-> 0, ub |-> TRUE]

\* the chunk data handed to the hardware, if any
Handed(h, samples) == IF samples = 0 THEN h.handed ELSE h.handed \cup {samples}

GC_Init(c, h, buffers) ==
    IF buffers > AUDIO_MAX_BUFFERS THEN RingUndefined(c, h)
    ELSE
    RingRet([chanID |-> -1, count |-> buffers, bufHead |-> 0, makeAvailable |-> FALSE,
             bufs |-> [i \in 1..AUDIO_MAX_BUFFERS |->
                          [available |-> i <= buffers, samples |-> 0]]], h, 0, 0)

\* ASND_StopVoice
GC_StopVoice(h) == [h EXCEPT !.working = FALSE, !.chained = FALSE]

GC_Close(c, h) ==
    RingRet([c EXCEPT !.chanID = -1, !.count = 0],
            IF c.chanID # -1 THEN GC_StopVoice(h) ELSE h, 0, 0)

\* the model has one voice, 0, which ASND_GetFirstUnusedVoice returns
GC_SetFormat(c, h) == RingRet([c EXCEPT !.chanID = 0], h, 0, 0)

\* lowest index below count of an available buffer; 0 if none
Ring_FreeSlot(c) ==
    LET free == {i \in 1..AUDIO_MAX_BUFFERS : i <= c.count /\ c.bufs[i].available}
    IN  IF free = {} THEN 0 ELSE CHOOSE i \in free : \A j \in free : i <= j

GC_QueueChunk(c, h, chunk) ==
    LET i == Ring_FreeSlot(c)
    IN  IF i = 0 THEN RingRet(c, h, ERR_INVALID_ARGUMENT, 0)
        ELSE RingRet([c EXCEPT !.bufs[i] = [available |-> FALSE, samples |-> chunk]],
                     [h EXCEPT !.accepted = chunk], 0, 0)

\* ASND_SetVoice refuses the voice -1
GC_Play(c, h) ==
    LET c1 == IF c.count = 1 THEN [c EXCEPT !.bufs[1].available = TRUE] ELSE c
    IN  IF c.chanID = -1 THEN RingRet(c1, h, 0, 0)
        ELSE RingRet(c1, [h EXCEPT !.working = TRUE, !.chained = FALSE,
                                   !.callback = c.count > 1,
                                   !.handed = Handed(h, c.bufs[1].samples)], 0, 0)

Ring_InUse(c) ==
    Cardinality({i \in 1..AUDIO_MAX_BUFFERS : i <= c.count /\ ~c.bufs[i].available})

GC_Poll(c, h) == RingRet(c, h, 0, Ring_InUse(c))

\* MusicCallback: indices are those of the C arrays plus one; prev is the
\* index written, which the code takes modulo 4 whatever count is.
\* ASND_AddVoice takes the buffer when the voice has no chained one and the
\* buffer has data (the data a slot held last, if it was not queued again)
MusicCallback(c, h) ==
    IF c.count = 0 THEN RingUndefined(c, h)
    ELSE
    LET next == (c.bufHead + 1) % c.count
        added == h.working /\ ~h.chained /\ c.bufs[next + 1].samples # 0
        make == c.makeAvailable \/ next = 2
        prev == IF next - 2 < 0 THEN next - 2 + 4 ELSE next - 2
        c1 == IF added
              THEN [c EXCEPT !.bufHead = next, !.makeAvailable = make,
                             !.bufs = IF make THEN [@ EXCEPT ![prev + 1].available = TRUE]
                                      ELSE @]
              ELSE c
        h1 == IF added
              THEN [h EXCEPT !.chained = TRUE,
                             !.handed = Handed(h, c.bufs[next + 1].samples)]
              ELSE h
    IN  IF ~h.working THEN RingRet(c, h, 0, 0)
        ELSE IF Ring_InUse(c1) = 0 /\ c1.chanID # -1 THEN RingRet(c1, GC_StopVoice(h1), 0, 0)
        ELSE RingRet(c1, h1, 0, 0)

\* the voice finishes the buffer it plays and goes on with the chained one
GC_Finish(h) ==
    IF h.chained THEN [h EXCEPT !.chained = FALSE] ELSE [h EXCEPT !.working = FALSE]

(***************************************************************************)
(* Dreamcast: the native object is the stream: started.  Sizes are in      *)
(* units of the smp_req of one AudioCallback.                              *)
(***************************************************************************)
DC_ZeroBuf == [available |-> FALSE, bytesLeft |-> 0, samples |-> 0]

DC_ZeroCtx ==
    [bufHead |-> 0, hnd |-> 0, count |-> 0,
     bufs |-> [i \in 1..AUDIO_MAX_BUFFERS |-> DC_ZeroBuf]]

DC_ZeroHw == [started |-> FALSE, handed |-> {}, accepted |-> 0]

\* fails: snd_stream_alloc returns SND_STREAM_INVALID
DC_Init(c, h, buffers, fails) ==
    IF fails THEN RingRet([c EXCEPT !.hnd = -1], h, ERR_NOT_SUPPORTED, 0)
    ELSE IF buffers > AUDIO_MAX_BUFFERS THEN RingUndefined(c, h)
    ELSE RingRet([bufHead |-> 0, hnd |-> 1, count |-> buffers,
                  bufs |-> [i \in 1..AUDIO_MAX_BUFFERS |->
                               [DC_ZeroBuf EXCEPT !.available = i <= buffers]]], h, 0, 0)

DC_Close(c, h) ==
    RingRet([c EXCEPT !.hnd = -1, !.count = 0],
            IF c.count # 0 THEN [h EXCEPT !.started = FALSE] ELSE h, 0, 0)

DC_QueueChunk(c, h, chunk, size) ==
    LET i == Ring_FreeSlot(c)
    IN  IF i = 0 THEN RingRet(c, h, ERR_INVALID_ARGUMENT, 0)
        ELSE RingRet([c EXCEPT !.bufs[i] = [available |-> FALSE, bytesLeft |-> size,
                                            samples |-> chunk]],
                     [h EXCEPT !.accepted = chunk], 0, 0)

DC_Play(c, h) == RingRet(c, [h EXCEPT !.started = c.hnd # -1], 0, 0)

DC_Poll(c, h) == RingRet(c, h, 0, Ring_InUse(c))

\* AudioCallback with smp_req = 1
AudioCallback(c, h) ==
    IF c.count = 0 THEN RingUndefined(c, h)
    ELSE
    LET buf == c.bufs[c.bufHead + 1]
        samples == IF buf.bytesLeft < 1 THEN buf.bytesLeft ELSE 1
        left == buf.bytesLeft - samples
        h1 == IF samples > 0 THEN [h EXCEPT !.handed = Handed(h, buf.samples)] ELSE h
    IN  IF left = 0
        THEN RingRet([c EXCEPT !.bufHead = (c.bufHead + 1) % c.count,
                               !.bufs[c.bufHead + 1] =
                                   [available |-> TRUE, bytesLeft |-> 0, samples |-> 0]],
                     h1, 0, 0)
        ELSE RingRet([c EXCEPT !.bufs[c.bufHead + 1].bytesLeft = left], h1, 0, 0)

RingBackends == {"GCWii", "Dreamcast"}

(***************************************************************************)
(* The compiled backend selects the implementation of each operation.      *)
(* Every result carries g, the shared statics after the call.              *)
(***************************************************************************)
Backends == {"OpenAL", "WinMM", "OpenSLES", "OS2"}

WithG(r, g) ==
    [c |-> r.c, h |-> r.h, res |-> r.res, inUse |-> r.inUse, calls |-> r.calls,
     ub |-> r.ub, g |-> g]

ZeroCtx(b) ==
    CASE b = "OpenAL" -> AL_ZeroCtx
      [] b = "WinMM" -> WM_ZeroCtx
      [] b = "OpenSLES" -> SL_ZeroCtx
      [] b = "OS2" -> OS2_ZeroCtx
      [] b = "GCWii" -> GC_ZeroCtx
      [] b = "Dreamcast" -> DC_ZeroCtx
      [] OTHER -> [count |-> 0]

ZeroHw(b) ==
    CASE b = "OpenAL" -> AL_ZeroHw
      [] b = "WinMM" -> WM_ZeroHw
      [] b = "OpenSLES" -> SL_ZeroHw
      [] b = "OS2" -> OS2_ZeroHw
      [] b = "GCWii" -> GC_ZeroHw
      [] b = "Dreamcast" -> DC_ZeroHw
      [] OTHER -> [none |-> TRUE]

Statics(b) == IF b = "OS2" THEN OS2_Device ELSE [none |-> TRUE]

Outcomes(b, op) ==
    CASE b = "OpenAL" -> AL_Outcomes(op)
      [] b = "WinMM" -> WM_Outcomes(op)
      [] b = "OpenSLES" -> SL_Outcomes(op)
      [] b = "OS2" -> OS2_Outcomes(op)
      [] b = "Null" -> Null_Outcomes(op)

Audio_Init(b, c, h, g, buffers, o) ==
    WithG(CASE b = "OpenAL" -> AL_Init(c, h, buffers, o)
            [] b = "WinMM" -> WM_Init(c, h, buffers, o)
            [] b = "OpenSLES" -> SL_Init(c, h, buffers, o)
            [] b = "OS2" -> OS2_Init(c, h, buffers, o)
            [] b = "Null" -> Null_Init(c, h, buffers, o), g)

Audio_Close(b, c, h, g, o) ==
    WithG(CASE b = "OpenAL" -> AL_Close(c, h, o)
            [] b = "WinMM" -> WM_Close(c, h, o)
            [] b = "OpenSLES" -> SL_Close(c, h, o)
            [] b = "OS2" -> OS2_Close(c, h, o)
            [] b = "Null" -> Null_Close(c, h, o), g)

Audio_SetFormat(b, c, h, g, channels, sampleRate, playbackRate, o) ==
    CASE b = "OpenAL" -> WithG(AL_SetFormat(c, h, channels, sampleRate, playbackRate, o), g)
      [] b = "WinMM" -> WithG(WM_SetFormat(c, h, channels, sampleRate, playbackRate, o), g)
      [] b = "OpenSLES" -> WithG(SL_SetFormat(c, h, channels, sampleRate, playbackRate, o), g)
      [] b = "OS2" -> LET x == OS2_SetFormat(c, h, g, channels, sampleRate, playbackRate, o)
                      IN  WithG(x.r, x.g)
      [] b = "Null" -> WithG(Null_SetFormat(c, h, channels, sampleRate, playbackRate, o), g)

Audio_SetVolume(b, c, h, g, volume, o) ==
    WithG(CASE b = "OpenAL" -> AL_SetVolume(c, h, volume, o)
            [] b = "WinMM" -> WM_SetVolume(c, h, volume, o)
            [] b = "OpenSLES" -> SL_SetVolume(c, h, volume, o)
            [] b = "OS2" -> OS2_SetVolume(c, h, volume, o)
            [] b = "Null" -> Null_SetVolume(c, h, volume, o), g)

Audio_QueueChunk(b, c, h, g, chunk, o) ==
    WithG(CASE b = "OpenAL" -> AL_QueueChunk(c, h, chunk, o)
            [] b = "WinMM" -> WM_QueueChunk(c, h, chunk, o)
            [] b = "OpenSLES" -> SL_QueueChunk(c, h, chunk, o)
            [] b = "OS2" -> OS2_QueueChunk(c, h, chunk, o)
            [] b = "Null" -> Null_QueueChunk(c, h, chunk, o), g)

Audio_Play(b, c, h, g, o) ==
    WithG(CASE b = "OpenAL" -> AL_Play(c, h, o)
            [] b = "WinMM" -> WM_Play(c, h, o)
            [] b = "OpenSLES" -> SL_Play(c, h, o)
            [] b = "OS2" -> OS2_Play(c, h, o)
            [] b = "Null" -> Null_Play(c, h, o), g)

Audio_Poll(b, c, h, g, o) ==
    WithG(CASE b = "OpenAL" -> AL_Poll(c, h, o)
            [] b = "WinMM" -> WM_Poll(c, h, o)
            [] b = "OpenSLES" -> SL_Poll(c, h, o)
            [] b = "OS2" -> OS2_Poll(c, h, o)
            [] b = "Null" -> Null_Poll(c, h, o), g)

\* the pairs <<struct, native object>> the hardware can bring about by
\* finishing one buffer
Completions(b, c, h) ==
    CASE b = "OpenAL" -> IF AL_CanComplete(h) THEN {<<c, AL_Complete(h)>>} ELSE {}
      [] b = "WinMM" -> {<<WM_Complete(c, h, i).c, WM_Complete(c, h, i).h>> :
                            i \in WM_Completable(h)}
      [] b = "OpenSLES" -> IF SL_CanComplete(h) THEN {<<c, SL_Complete(h)>>} ELSE {}
      [] b = "OS2" -> {}
      [] b = "Null" -> {}

\* slots of the context a chunk can be queued on
FreeSlots(b, c, h) ==
    CASE b = "OpenAL" -> AL_Free(c)
      [] b = "WinMM" -> WM_Free(c)
      [] b = "OpenSLES" -> SL_Free(c, h)
      [] b = "OS2" -> 0
      [] b = "Null" -> 0

\* buffers handed to the hardware that it has not finished
Unfinished(b, h) ==
    CASE b = "OpenAL" -> AL_Unfinished(h)
      [] b = "WinMM" -> WM_Unfinished(h)
      [] b = "OpenSLES" -> SL_Unfinished(h)
      [] b = "OS2" -> 0
      [] b = "Null" -> 0

(***************************************************************************)
(* Audio_AllocChunks / Audio_FreeChunks.  Memory is the byte addresses     *)
(* below ArenaEnd; a block is [base, len].  The allocator returns the base *)
(* of a block that overlaps no live block, or NULL (0).  The memory pool   *)
(* table of the Switch backend is not part of the model.                   *)
(***************************************************************************)
ChunkBackends ==
    {"OpenAL", "WinMM", "OpenSLES", "OS2", "WebAudio", "3DS", "Switch", "GCWii", "Dreamcast",
     "Null"}

\* (size + mask) & ~mask, for mask + 1 a power of two
RoundUp(size, mask) == ((size + mask) \div (mask + 1)) * (mask + 1)

\* size as the backend rounds it
ChunkStride(b, size) ==
    CASE b = "3DS" -> RoundUp(size, 127)
      [] b = "Switch" -> RoundUp(size, 4095)
      [] b \in {"GCWii", "Dreamcast"} -> RoundUp(size, 31)
      [] OTHER -> size

\* the bytes the backend asks the allocator for
ChunkBytes(b, size, numChunks) ==
    IF b = "GCWii" THEN ChunkStride(b, size) ELSE ChunkStride(b, size) * numChunks

NoBlock == [base |-> 0, len |-> 0]

\* dst is what the allocator returned; chunks is the caller's array, <<>>
\* when it was not written
Audio_AllocChunks(b, size, numChunks, dst) ==
    IF b = "Null" THEN [res |-> ERR_NOT_SUPPORTED, chunks |-> <<>>, block |-> NoBlock]
    ELSE IF dst = 0 THEN [res |-> ERR_OUT_OF_MEMORY, chunks |-> <<>>, block |-> NoBlock]
    ELSE [res |-> 0,
          chunks |-> [i \in 1..numChunks |-> dst + ChunkStride(b, size) * (i - 1)],
          block |-> [base |-> dst, len |-> ChunkBytes(b, size, numChunks)]]

\* the live blocks after Audio_FreeChunks: the block that starts at chunks[0]
\* is released
Audio_FreeChunks(b, live, chunks) ==
    IF b = "Null" THEN live ELSE {blk \in live : blk.base # chunks[1]}

MaxHeld == 2
ArenaPages == 6
AllocSizes == {100, 128}
ArenaEnd == 4096 * (ArenaPages + 1)

Overlap(a, alen, b, blen) == a < b + blen /\ b < a + alen

\* the addresses the allocator can return for len bytes
FreeBases(live, len) ==
    {a \in {4096 * k : k \in 1..ArenaPages} :
        /\ a + len <= ArenaEnd
        /\ \A blk \in live : ~Overlap(a, len, blk.base, blk.len)}

NoHeap == [live |-> {}, held |-> {}]

(***************************************************************************)
(* AudioBackend_Init / AudioBackend_Free.                                  *)
(*                                                                         *)
(* The statics are zero at load.  o names the native call of this          *)
(* AudioBackend_Init that fails ("none": every call succeeds).  A result   *)
(* is [e, res, calls, warns]: the statics after the call, the value        *)
(* returned, the native calls issued and the number of warnings logged.    *)
(* The OS/2 AudioBackend_Init is not part of the model.                    *)
(***************************************************************************)
EngineBackends ==
    {"OpenAL", "WinMM", "OpenSLES", "WebAudio", "3DS", "Switch", "GCWii", "Dreamcast", "Null"}

ZeroStatics(b) ==
    CASE b = "OpenAL" -> [audio_device |-> 0, audio_context |-> 0]
      [] b = "OpenSLES" -> [slEngineObject |-> 0, slEngineEngine |-> 0, slOutputObject |-> 0]
      [] b = "Switch" -> [switchAudio |-> FALSE, audrv_mutex |-> 0]
      [] OTHER -> [none |-> TRUE]

EngineOutcomes(b) ==
    CASE b = "OpenAL" -> {"none", "load", "open", "opened", "context", "current"}
      [] b = "OpenSLES" -> {"none", "load", "create", "realize", "interface", "mix",
                            "mixrealize"}
      [] b \in {"WebAudio", "3DS", "Switch", "Dreamcast"} -> {"none", "init"}
      [] OTHER -> {"none"}

Inited(e, res, calls, warns) == [e |-> e, res |-> res, calls |-> calls, warns |-> warns]

\* "open": alcOpenDevice returns NULL; "opened": it returns a device and
\* alcGetError an error
AL_BackendInit(e, o) ==
    LET dev == [e EXCEPT !.audio_device = 1]
        ctx == [dev EXCEPT !.audio_context = 1]
    IN  IF e.audio_device # 0 THEN Inited(e, TRUE, <<>>, 0)
        ELSE IF o = "load" THEN Inited(e, FALSE, <<"DynamicLib_LoadAll">>, 1)
        ELSE IF o = "open"
             THEN Inited(e, FALSE, <<"DynamicLib_LoadAll", "alcOpenDevice">>, 1)
        ELSE IF o = "opened"
             THEN Inited(dev, FALSE, <<"DynamicLib_LoadAll", "alcOpenDevice">>, 1)
        ELSE IF o = "context"
             THEN Inited(dev, FALSE,
                         <<"DynamicLib_LoadAll", "alcOpenDevice", "alcCreateContext">>, 1)
        ELSE Inited(ctx, o = "none",
                    <<"DynamicLib_LoadAll", "alcOpenDevice", "alcCreateContext",
                      "alcMakeContextCurrent">>,
                    IF o = "none" THEN 0 ELSE 1)

AL_BackendFree(e) ==
    IF e.audio_device = 0 THEN e ELSE [audio_device |-> 0, audio_context |-> 0]

SL_BackendInit(e, o) ==
    LET eng == [e EXCEPT !.slEngineObject = 1]
        itf == [eng EXCEPT !.slEngineEngine = 1]
        mix == [itf EXCEPT !.slOutputObject = 1]
        c1 == <<"DynamicLib_LoadAll">>
        c2 == Append(c1, "slCreateEngine")
        c3 == Append(c2, "Realize")
        c4 == Append(c3, "GetInterface")
        c5 == Append(c4, "CreateOutputMix")
        c6 == Append(c5, "Realize")
    IN  IF e.slEngineObject # 0 THEN Inited(e, TRUE, <<>>, 0)
        ELSE CASE o = "load" -> Inited(e, FALSE, c1, 1)
               [] o = "create" -> Inited(e, FALSE, c2, 1)
               [] o = "realize" -> Inited(eng, FALSE, c3, 1)
               [] o = "interface" -> Inited(eng, FALSE, c4, 1)
               [] o = "mix" -> Inited(itf, FALSE, c5, 1)
               [] o = "mixrealize" -> Inited(mix, FALSE, c6, 1)
               [] o = "none" -> Inited(mix, TRUE, c6, 0)

SL_BackendFree(e) == [slEngineObject |-> 0, slEngineEngine |-> 0, slOutputObject |-> 0]

\* "init": audrenStartAudioRenderer fails
SW_BackendInit(e, o) ==
    IF e.switchAudio THEN Inited(e, TRUE, <<>>, 0)
    ELSE Inited([switchAudio |-> TRUE, audrv_mutex |-> 1], o = "none",
                (IF e.audrv_mutex = 0 THEN <<"Mutex_Create">> ELSE <<>>)
                    \o <<"audrenInitialize", "audrvCreate", "audrvDeviceSinkAdd",
                         "audrvUpdate", "audrenStartAudioRenderer">>,
                0)

AudioBackend_Init(b, e, o) ==
    CASE b = "OpenAL" -> AL_BackendInit(e, o)
      [] b = "WinMM" -> Inited(e, TRUE, <<>>, 0)
      [] b = "OpenSLES" -> SL_BackendInit(e, o)
      [] b = "3DS" -> Inited(e, o = "none", <<"ndspInit", "ndspSetOutputMode">>, 0)
      [] b = "Switch" -> SW_BackendInit(e, o)
      [] b = "GCWii" -> Inited(e, TRUE, <<"ASND_Init", "ASND_Pause">>, 0)
      [] b = "Dreamcast" -> Inited(e, o = "none", <<"snd_stream_init">>, 0)
      [] b = "WebAudio" -> Inited(e, o = "none", <<"interop_InitAudio">>,
                                  IF o = "none" THEN 0 ELSE 1)
      [] b = "Null" -> Inited(e, FALSE, <<>>, 0)

\* the statics after AudioBackend_Free
AudioBackend_Free(b, e) ==
    CASE b = "OpenAL" -> AL_BackendFree(e)
      [] b = "OpenSLES" -> SL_BackendFree(e)
      [] OTHER -> e

\* the native calls AudioBackend_Free issues (the 24 audrvVoiceStop calls of
\* the Switch backend as one)
FreeCalls(b, e) ==
    CASE b = "OpenAL" ->
            IF e.audio_device = 0 THEN <<>>
            ELSE <<"alcMakeContextCurrent">>
                     \o (IF e.audio_context # 0 THEN <<"alcDestroyContext">> ELSE <<>>)
                     \o <<"alcCloseDevice">>
      [] b = "OpenSLES" ->
            (IF e.slOutputObject # 0 THEN <<"Destroy(slOutputObject)">> ELSE <<>>)
                \o (IF e.slEngineObject # 0 THEN <<"Destroy(slEngineObject)">> ELSE <<>>)
      [] b = "Switch" -> <<"audrvVoiceStop", "audrvUpdate">>
      [] b = "GCWii" -> <<"ASND_Pause", "ASND_End">>
      [] b = "Dreamcast" -> <<"snd_stream_shutdown">>
      [] OTHER -> <<>>

MaxInits == 3

\* statics: the statics of the backend; inits: the AudioBackend_Init calls
\* made; succeeded: one of them returned success since the last
\* AudioBackend_Free; created: those since the last AudioBackend_Free that
\* issued native calls and returned success; failed: one returned failure;
\* warns: the warnings logged
ZeroEngine(b) ==
    [statics |-> ZeroStatics(b), inits |-> 0, succeeded |-> FALSE, created |-> 0,
     failed |-> FALSE, warns |-> 0]

(***************************************************************************)
(* The fixed-channel backends (3DS, Switch).  channelIDs, a bit mask in    *)
(* the code, is the set of the channel numbers whose bit is set.  Of       *)
(* struct AudioContext only count and chanID are kept.                     *)
(***************************************************************************)
FixedBackends == {"3DS", "Switch"}
Channels == 0..23

FC_ZeroCtx == [count |-> 0, chanID |-> 0]

\* smallest element of a non-empty set of numbers
Lowest(S) == CHOOSE x \in S : \A y \in S : x <= y

\* an Audio_Init that takes channel 0 whether or not it is in use
FC_Init_First(b, c, ids, buffers) ==
    IF Channels \ ids = {}
    THEN [c |-> c, ids |-> ids, res |-> ERR_INVALID_ARGUMENT, calls |-> <<>>]
    ELSE [c |-> [c EXCEPT !.count = buffers, !.chanID = 0],
          ids |-> ids \cup {0},
          res |-> 0,
          calls |-> IF b = "3DS" THEN <<"ndspChnSetInterp">> ELSE <<>>]

\* an Audio_Close that keeps the channel
FC_Close_Keep(b, c, ids) ==
    [c |-> [c EXCEPT !.count = 0], ids |-> ids, calls |-> <<>>]

\* a result is [c, ids, res, calls]: the context, channelIDs, the value
\* returned and the native calls
FC_Init(b, c, ids, buffers) ==
    IF Channels \ ids = {}
    THEN [c |-> c, ids |-> ids, res |-> ERR_INVALID_ARGUMENT, calls |-> <<>>]
    ELSE LET chanID == Lowest(Channels \ ids)
         IN  [c |-> [c EXCEPT !.count = buffers, !.chanID = chanID],
              ids |-> ids \cup {chanID},
              res |-> 0,
              calls |-> IF b = "3DS" THEN <<"ndspChnSetInterp">> ELSE <<>>]

FC_Close(b, c, ids) ==
    IF c.count # 0
    THEN [c |-> [c EXCEPT !.count = 0], ids |-> ids \ {c.chanID},
          calls |-> IF b = "3DS" THEN <<"ndspChnWaveBufClear">> ELSE <<"audrvVoiceStop">>]
    ELSE [c |-> [c EXCEPT !.count = 0], ids |-> ids, calls |-> <<>>]

\* one context more than there are channels
FixedContexts == 0..24
MaxCloses == 1

\* closes: the Audio_Close calls made on open contexts
NoFixed == [channelIDs |-> {}, ctx |-> [i \in FixedContexts |-> FC_ZeroCtx], closes |-> 0]

(***************************************************************************)
(* The Switch backend: the steps of each operation that lock or unlock     *)
(* audrv_mutex or access state the driver update works on (drv, and the    *)
(* state field of the wave buffers, which audrvUpdate refreshes), in       *)
(* program order.  some: the context has a free buffer (Audio_QueueChunk)  *)
(* or is open (Audio_Close).                                               *)
(***************************************************************************)
SwitchOps ==
    {"SetFormat", "SetVolume", "QueueChunk", "Play", "Poll", "Close", "AllocChunks",
     "FreeChunks", "AudioBackend_Free"}

SW_Steps(op, some) ==
    CASE op = "SetFormat" ->
            <<"audrvVoiceStop", "audrvVoiceInit", "audrvVoiceSetDestinationMix",
              "audrvVoiceSetMixFactor">>
      [] op = "SetVolume" -> <<"audrvVoiceSetVolume">>
      [] op = "QueueChunk" ->
            IF some
            THEN <<"buf->state", "Mutex_Lock", "audrvVoiceAddWaveBuf", "Mutex_Unlock">>
            ELSE <<"buf->state">>
      [] op = "Play" -> <<"audrvVoiceStart">>
      [] op = "Poll" -> <<"buf->state">>
      [] op = "Close" -> IF some THEN <<"audrvVoiceStop">> ELSE <<>>
      [] op = "AllocChunks" -> <<"audrvMemPoolAdd", "audrvMemPoolAttach">>
      [] op = "FreeChunks" -> <<"audrvMemPoolDetach", "audrvMemPoolRemove">>
      [] op = "AudioBackend_Free" -> <<"audrvVoiceStop", "audrvUpdate">>

\* mutex: the thread holding audrv_mutex; caller: the steps the caller has
\* yet to take in its current operation; tick: where AudioBackend_Tick is
NoThreads == [mutex |-> "none", caller |-> <<>>, op |-> "none", tick |-> "idle"]

(***************************************************************************)
(* State.                                                                  *)
(***************************************************************************)
Pool == 0..(POOL_MAX_CONTEXTS - 1)

NoCall ==
    [op |-> "none", args |-> <<>>, res |-> 0, inUse |-> 0, calls |-> <<>>, same |-> TRUE]

\* capacity: the buffers given to the last Audio_Init (0 once closed);
\* inited: that Audio_Init returned success;
\* fresh: no chunk was queued since the last Audio_Init or Audio_Close;
\* streak: successful Audio_QueueChunk calls since the last Audio_Poll;
\* quiet: those of them made since the hardware last finished a buffer;
\* format: the arguments of the last Audio_SetFormat if it returned success
\* and the context was not closed since, <<>> otherwise;
\* peak: the largest size handed to Audio_QueueChunk at volume < 100 since
\* the context was last zeroed (by the loader or by Audio_Close);
\* queued: the largest of those sizes whose Audio_QueueChunk returned success;
\* stray: Audio_QueueChunk was called since then on the context while closed
NoHist ==
    [capacity |-> 0, inited |-> FALSE, fresh |-> TRUE, streak |-> 0, quiet |-> 0,
     format |-> <<>>, peak |-> 0, queued |-> 0, stray |-> FALSE]

\* the statics as the loader leaves them: every context zeroed
\* nomem says whether Mem_TryAlloc and Mem_TryRealloc may return NULL
StartFull(backends, ops, volumes, formats, chunks, faults, nomem) ==
    /\ backend \in backends
    /\ watch = ops
    /\ inputs = [volumes |-> volumes, formats |-> formats, chunks |-> chunks,
                 faults |-> faults, nomem |-> nomem]
    /\ music_ctx = ZeroCtx(backend)
    /\ music_hw = ZeroHw(backend)
    /\ context_pool = [i \in Pool |-> ZeroCtx(backend)]
    /\ pool_hw = [i \in Pool |-> ZeroHw(backend)]
    /\ pool_done = 0
    /\ glob = Statics(backend)
    /\ crashed = FALSE
    /\ last = NoCall
    /\ hist = NoHist
    /\ engine = ZeroEngine(backend)
    /\ heap = NoHeap
    /\ fixed = NoFixed
    /\ threads = NoThreads

\* the allocator always succeeds
StartWith(backends, ops, volumes, formats, chunks, faults) ==
    StartFull(backends, ops, volumes, formats, chunks, faults, FALSE)

\* no native call made through the pool fails
StartOn(backends, ops, volumes, formats, chunks) ==
    StartWith(backends, ops, volumes, formats, chunks, {})

Start(ops, volumes, formats) == StartOn(Backends, ops, volumes, formats, {1})

\* the record of a call on music_ctx that returned r
Called(op, args, r) ==
    IF op \in watch
    THEN [op |-> op, args |-> args, res |-> r.res, inUse |-> r.inUse, calls |-> r.calls,
          same |-> (~r.ub /\ r.c = music_ctx /\ r.h = music_hw /\ r.g = glob)]
    ELSE NoCall

\* hist is kept for the operations watched only
Tracked(h) ==
    [capacity |-> IF watch \cap {"Poll", "QueueChunk"} # {} THEN h.capacity ELSE 0,
     inited |-> IF watch \cap {"Poll", "QueueChunk"} # {} THEN h.inited ELSE FALSE,
     fresh |-> IF "Poll" \in watch THEN h.fresh ELSE TRUE,
     streak |-> IF "QueueChunk" \in watch THEN h.streak ELSE 0,
     quiet |-> IF "QueueChunk" \in watch THEN h.quiet ELSE 0,
     format |-> IF "SetFormat" \in watch THEN h.format ELSE <<>>,
     peak |-> IF "Scratch" \in watch THEN h.peak ELSE 0,
     queued |-> IF "Scratch" \in watch THEN h.queued ELSE 0,
     stray |-> IF "Scratch" \in watch THEN h.stray ELSE FALSE]

\* a call on music_ctx returns r: a call that ran into undefined behaviour
\* ends the process
Return(op, args, r, h) ==
    /\ last' = Called(op, args, r)
    /\ crashed' = r.ub
    /\ IF r.ub
       THEN UNCHANGED <<music_ctx, music_hw, glob, hist>>
       ELSE /\ music_ctx' = r.c
            /\ music_hw' = r.h
            /\ glob' = r.g
            /\ hist' = Tracked(h)
    /\ UNCHANGED <<backend, watch, inputs, context_pool, pool_hw, pool_done, engine, heap, fixed, threads>>

Bump(n) == IF n < MaxBuffers THEN n + 1 ELSE n

(***************************************************************************)
(* The owner of music_ctx calls the operations in any order.               *)
(***************************************************************************)
Music_Init ==
    /\ ~crashed
    /\ \E buffers \in 1..MaxBuffers, o \in Outcomes(backend, "Init") :
          LET r == Audio_Init(backend, music_ctx, music_hw, glob, buffers, o)
          IN  Return("Init", <<buffers>>, r,
                     [hist EXCEPT !.capacity = buffers, !.inited = (r.res = 0),
                                  !.fresh = TRUE, !.streak = 0, !.quiet = 0])

Music_SetFormat ==
    /\ ~crashed
    /\ \E f \in inputs.formats, o \in Outcomes(backend, "SetFormat") :
          LET r == Audio_SetFormat(backend, music_ctx, music_hw, glob, f[1], f[2], f[3], o)
          IN  Return("SetFormat", f, r,
                     [hist EXCEPT !.format = IF r.res = 0 THEN f ELSE <<>>])

Music_SetVolume ==
    /\ ~crashed
    /\ \E volume \in inputs.volumes, o \in Outcomes(backend, "SetVolume") :
          Return("SetVolume", <<volume>>,
                 Audio_SetVolume(backend, music_ctx, music_hw, glob, volume, o), hist)

Music_QueueChunk ==
    /\ ~crashed
    /\ \E chunk \in Chunks, o \in Outcomes(backend, "QueueChunk") :
          LET r == Audio_QueueChunk(backend, music_ctx, music_hw, glob, chunk, o)
              soft == backend = "WinMM" /\ music_ctx.volume < 100
              h == [hist EXCEPT
                       !.peak = IF soft /\ @ < ChunkSize(chunk) THEN ChunkSize(chunk) ELSE @,
                       !.queued = IF soft /\ r.res = 0 /\ @ < ChunkSize(chunk)
                                  THEN ChunkSize(chunk) ELSE @,
                       !.stray = @ \/ music_ctx.count = 0]
          IN  Return("QueueChunk", <<chunk>>, r,
                     IF r.res = 0
                     THEN [h EXCEPT !.fresh = FALSE, !.streak = Bump(@), !.quiet = Bump(@)]
                     ELSE h)

Music_Play ==
    /\ ~crashed
    /\ \E o \in Outcomes(backend, "Play") :
          Return("Play", <<>>, Audio_Play(backend, music_ctx, music_hw, glob, o), hist)

Music_Poll ==
    /\ ~crashed
    /\ \E o \in Outcomes(backend, "Poll") :
          Return("Poll", <<>>, Audio_Poll(backend, music_ctx, music_hw, glob, o),
                 [hist EXCEPT !.streak = 0, !.quiet = 0])

Music_Close ==
    /\ ~crashed
    /\ \E o \in Outcomes(backend, "Close") :
          Return("Close", <<>>, Audio_Close(backend, music_ctx, music_hw, glob, o), NoHist)

\* the hardware finishes a buffer of music_ctx
Music_Complete ==
    /\ ~crashed
    /\ \E p \in Completions(backend, music_ctx, music_hw) :
          /\ music_ctx' = p[1]
          /\ music_hw' = p[2]
    /\ last' = NoCall
    /\ hist' = [hist EXCEPT !.quiet = 0]
    /\ UNCHANGED <<backend, watch, inputs, context_pool, pool_hw, pool_done, glob, crashed, engine, heap, fixed, threads>>

Next ==
    \/ Music_Init
    \/ Music_SetFormat
    \/ Music_SetVolume
    \/ Music_QueueChunk
    \/ Music_Play
    \/ Music_Poll
    \/ Music_Close
    \/ Music_Complete

\* the formats without the one whose effective rate is not a whole number
TwoFormats == {<<1, 22050, 100>>, <<2, 22050, 150>>}

Init == Start({"Poll"}, {100}, TwoFormats)

\* the direct caller, observed at Audio_Poll
Spec == Init /\ [][Next]_vars
\* the direct caller, observed at Audio_QueueChunk
SpecQueue == Start({"QueueChunk"}, Volumes, TwoFormats) /\ [][Next]_vars
\* the direct caller, observed at Audio_Close
SpecClose == Start({"Close"}, Volumes, TwoFormats) /\ [][Next]_vars
\* the direct caller, observed at Audio_SetFormat
SpecFormat == Start({"SetFormat"}, {100}, Formats) /\ [][Next]_vars

\* the WinMM caller with software volume 0 and 100 and chunks of 8 and
\* 9 samples, observed at Audio_QueueChunk
SpecVolume ==
    StartOn({"WinMM"}, {"QueueChunk"}, {0, 100}, {<<1, 22050, 100>>}, {3, 4})
        /\ [][Next]_vars

\* the WinMM caller with software volume 50 and a chunk of 9 samples,
\* observed at Audio_QueueChunk
SpecScale ==
    StartOn({"WinMM"}, {"QueueChunk"}, {50}, {<<1, 22050, 100>>}, {4})
        /\ [][Next]_vars

\* the WinMM caller with software volume 50 and chunks of 3 and 9 samples,
\* with an allocator that may return NULL
SpecNoMem ==
    StartFull({"WinMM"}, {"QueueChunk"}, {50}, {<<1, 22050, 100>>}, {2, 4}, {}, TRUE)
        /\ [][Next]_vars

\* the WinMM caller with volume 100 after Audio_Init and 50 after
\* Audio_SetVolume and chunks of 6 and 18 bytes, with the sizes handed to
\* Audio_QueueChunk recorded
SpecScratch ==
    StartOn({"WinMM"}, {"Scratch"}, {50}, {<<1, 22050, 100>>}, {2, 4})
        /\ [][Next]_vars

\* the WinMM caller with software volume 50 and two chunks of different
\* samples, of 2 and 3 samples
SpecShared ==
    StartOn({"WinMM"}, {"QueueChunk"}, {50}, {<<1, 22050, 100>>}, {1, 2})
        /\ [][Next]_vars

(***************************************************************************)
(* The owner of a ring context (music_ctx) calls the operations in any     *)
(* order while the hardware calls back.                                    *)
(***************************************************************************)
RingReturn(op, args, r) ==
    /\ last' = [op |-> op, args |-> args, res |-> r.res, inUse |-> r.inUse, calls |-> <<>>,
                same |-> (~r.ub /\ r.c = music_ctx /\ r.h = music_hw)]
    /\ crashed' = r.ub
    /\ IF r.ub THEN UNCHANGED <<music_ctx, music_hw>>
       ELSE music_ctx' = r.c /\ music_hw' = r.h
    /\ UNCHANGED <<backend, watch, inputs, context_pool, pool_hw, pool_done, glob, hist,
                   engine, heap, fixed, threads>>

\* Audio_Init on the closed context
Ring_Init ==
    /\ ~crashed /\ music_ctx.count = 0
    /\ \E buffers \in 1..AUDIO_MAX_BUFFERS, fails \in BOOLEAN :
          RingReturn("Init", <<buffers>>,
                     IF backend = "GCWii" THEN GC_Init(music_ctx, music_hw, buffers)
                     ELSE DC_Init(music_ctx, music_hw, buffers, fails))

Ring_SetFormat ==
    /\ ~crashed /\ backend = "GCWii" /\ music_ctx.count > 0 /\ music_ctx.chanID = -1
    /\ RingReturn("SetFormat", <<>>, GC_SetFormat(music_ctx, music_hw))

Ring_QueueChunk ==
    /\ ~crashed /\ music_ctx.count > 0
    /\ music_hw.accepted < MaxChunks
    /\ \E size \in 1..2 :
          /\ backend = "GCWii" => size = 1
          /\ RingReturn("QueueChunk", <<music_hw.accepted + 1>>,
                        IF backend = "GCWii"
                        THEN GC_QueueChunk(music_ctx, music_hw, music_hw.accepted + 1)
                        ELSE DC_QueueChunk(music_ctx, music_hw, music_hw.accepted + 1, size))

\* Audio_Play, once the format was set and chunks were queued
Ring_Play ==
    /\ ~crashed /\ music_ctx.count > 0
    /\ ~music_ctx.bufs[1].available
    /\ IF backend = "GCWii" THEN music_ctx.chanID # -1 /\ ~music_hw.working
       ELSE ~music_hw.started
    /\ RingReturn("Play", <<>>,
                  IF backend = "GCWii" THEN GC_Play(music_ctx, music_hw)
                  ELSE DC_Play(music_ctx, music_hw))

Ring_Poll ==
    /\ ~crashed /\ music_ctx.count > 0
    /\ RingReturn("Poll", <<>>,
                  IF backend = "GCWii" THEN GC_Poll(music_ctx, music_hw)
                  ELSE DC_Poll(music_ctx, music_hw))

Ring_Close ==
    /\ ~crashed /\ music_ctx.count > 0
    /\ RingReturn("Close", <<>>,
                  IF backend = "GCWii" THEN GC_Close(music_ctx, music_hw)
                  ELSE DC_Close(music_ctx, music_hw))

\* the hardware asks for data: MusicCallback of the voice that has it
\* installed, AudioCallback of the started stream
Ring_Callback ==
    /\ ~crashed
    /\ IF backend = "GCWii" THEN music_hw.callback /\ music_hw.working
       ELSE music_hw.started
    /\ LET r == IF backend = "GCWii" THEN MusicCallback(music_ctx, music_hw)
                ELSE AudioCallback(music_ctx, music_hw)
       IN  /\ crashed' = r.ub
           /\ IF r.ub THEN UNCHANGED <<music_ctx, music_hw>>
              ELSE music_ctx' = r.c /\ music_hw' = r.h
    /\ last' = NoCall
    /\ UNCHANGED <<backend, watch, inputs, context_pool, pool_hw, pool_done, glob, hist,
                   engine, heap, fixed, threads>>

\* the GC/Wii voice finishes a buffer
Ring_Finish ==
    /\ ~crashed /\ backend = "GCWii" /\ music_hw.working
    /\ music_hw' = GC_Finish(music_hw)
    /\ last' = NoCall
    /\ UNCHANGED <<backend, watch, inputs, music_ctx, context_pool, pool_hw, pool_done, glob,
                   crashed, hist, engine, heap, fixed, threads>>

NextRing ==
    \/ Ring_Init
    \/ Ring_SetFormat
    \/ Ring_QueueChunk
    \/ Ring_Play
    \/ Ring_Poll
    \/ Ring_Close
    \/ Ring_Callback
    \/ Ring_Finish

\* the streaming context of a ring backend
SpecRing == StartOn(RingBackends, {}, {}, {}, {}) /\ [][NextRing]_vars

\* the same with hardware that keeps calling back and keeps playing
SpecRingFair == SpecRing /\ WF_vars(Ring_Callback) /\ WF_vars(Ring_Finish)

(***************************************************************************)
(* The context pool.  A sound is <<channels, sampleRate, rate, volume,     *)
(* chunk>>.  fault names the one call of an AudioPool_Play that fails, as  *)
(* [ctx, op, o]: op "Poll1" / "Poll2" is the Audio_Poll of pass 1 / 2;     *)
(* every other call gets the outcome with the same junk and no failure.    *)
(***************************************************************************)
\* an Audio_FastPlay that accepts every context
FastPlay_Always(b, c, data) == TRUE

Audio_FastPlay(b, c, data) ==
    CASE b = "OpenAL" -> TRUE
      [] b = "WinMM" -> c.channels = 0
                        \/ (c.channels = data[1]
                            /\ c.sampleRate = Audio_AdjustSampleRate(data[2], data[3]))
      [] b = "OpenSLES" -> c.channels = 0
                           \/ (c.channels = data[1] /\ c.sampleRate = data[2])
      [] b = "OS2" -> FALSE
      [] b = "Null" -> FALSE

NoFault == [ctx |-> -1, op |-> "none", o |-> NoFail]

OutcomeAt(fault, i, op) ==
    IF fault.ctx = i /\ fault.op = op THEN fault.o ELSE [NoFail EXCEPT !.junk = fault.o.junk]

\* the state an AudioPool_Play has reached: the pool, the native objects, the
\* statics, the calls made so far as <<context, operation>>, the contexts
\* whose last Audio_Poll reported buffers in use, and the result code of each
\* call made so far
PoolState(pool, hw, g, calls, busy) ==
    [pool |-> pool, hw |-> hw, g |-> g, calls |-> calls, busy |-> busy,
     codes |-> [k \in DOMAIN calls |-> 0]]

PoolRet(st, res, ub) ==
    [pool |-> st.pool, hw |-> st.hw, g |-> st.g, calls |-> st.calls, busy |-> st.busy,
     codes |-> st.codes, res |-> res, ub |-> ub]

\* the pool state after a call on context i returned r
After(st, i, op, r) ==
    [st EXCEPT !.pool[i] = r.c, !.hw[i] = r.h, !.g = r.g, !.calls = Append(@, <<i, op>>),
               !.codes = Append(@, r.res)]

\* a call on context i returned r: the pool state after it and its result
Step(st, i, op, r) ==
    [st |-> After(st, i, op, r), res |-> r.res, ub |-> r.ub, inUse |-> r.inUse]

Failed(x) == x.ub \/ x.res # 0

\* F applied to the value of e, which is computed once
Bind(e, F(_)) == CHOOSE y \in {F(x) : x \in {e}} : TRUE

\* a PlayAudio that goes on after Audio_SetFormat or Audio_QueueChunk failed
PlayAudio_GoOn(b, st, i, data, fault) ==
    Bind(Step(st, i, "SetVolume",
              Audio_SetVolume(b, st.pool[i], st.hw[i], st.g, data[4],
                              OutcomeAt(fault, i, "SetVolume"))),
      LAMBDA v : IF v.ub THEN PoolRet(v.st, 0, TRUE) ELSE
    Bind(Step(v.st, i, "SetFormat",
              Audio_SetFormat(b, v.st.pool[i], v.st.hw[i], v.st.g, data[1], data[2], data[3],
                              OutcomeAt(fault, i, "SetFormat"))),
      LAMBDA f : IF f.ub THEN PoolRet(f.st, f.res, f.ub) ELSE
    Bind(Step(f.st, i, "QueueChunk",
              Audio_QueueChunk(b, f.st.pool[i], f.st.hw[i], f.st.g, data[5],
                               OutcomeAt(fault, i, "QueueChunk"))),
      LAMBDA q : IF q.ub THEN PoolRet(q.st, q.res, q.ub) ELSE
    Bind(Step(q.st, i, "Play",
              Audio_Play(b, q.st.pool[i], q.st.hw[i], q.st.g, OutcomeAt(fault, i, "Play"))),
      LAMBDA p : PoolRet(p.st, p.res, p.ub)))))

PlayAudio(b, st, i, data, fault) ==
    Bind(Step(st, i, "SetVolume",
              Audio_SetVolume(b, st.pool[i], st.hw[i], st.g, data[4],
                              OutcomeAt(fault, i, "SetVolume"))),
      LAMBDA v : IF v.ub THEN PoolRet(v.st, 0, TRUE) ELSE
    Bind(Step(v.st, i, "SetFormat",
              Audio_SetFormat(b, v.st.pool[i], v.st.hw[i], v.st.g, data[1], data[2], data[3],
                              OutcomeAt(fault, i, "SetFormat"))),
      LAMBDA f : IF Failed(f) THEN PoolRet(f.st, f.res, f.ub) ELSE
    Bind(Step(f.st, i, "QueueChunk",
              Audio_QueueChunk(b, f.st.pool[i], f.st.hw[i], f.st.g, data[5],
                               OutcomeAt(fault, i, "QueueChunk"))),
      LAMBDA q : IF Failed(q) THEN PoolRet(q.st, q.res, q.ub) ELSE
    Bind(Step(q.st, i, "Play",
              Audio_Play(b, q.st.pool[i], q.st.hw[i], q.st.g, OutcomeAt(fault, i, "Play"))),
      LAMBDA p : PoolRet(p.st, p.res, p.ub)))))

\* an Audio_Poll whose error is taken for "in use"
Polled_Skip(b, st, i, o) ==
    Bind(Step(st, i, "Poll", Audio_Poll(b, st.pool[i], st.hw[i], st.g, o)),
      LAMBDA p : IF p.res # 0 /\ ~p.ub
                 THEN [st |-> [p.st EXCEPT !.busy = @ \cup {i}], res |-> 0, ub |-> FALSE,
                       inUse |-> 1]
                 ELSE p)

\* Audio_Poll on context i, and whether it reported the context in use
Polled(b, st, i, o) ==
    Bind(Step(st, i, "Poll", Audio_Poll(b, st.pool[i], st.hw[i], st.g, o)),
      LAMBDA p : [p EXCEPT !.st.busy = IF ~Failed(p) /\ p.inUse > 0
                                       THEN @ \cup {i} ELSE @ \ {i}])

\* a second loop that plays on context 0 without asking whether it is in use
Pass2_NoPoll(b, st, i, data, fault) == PlayAudio(b, st, 0, data, fault)

\* the second loop of AudioPool_Play, from context i on
RECURSIVE Pass2(_, _, _, _, _)
Pass2(b, st, i, data, fault) ==
    IF i >= POOL_MAX_CONTEXTS THEN PoolRet(st, 0, FALSE)
    ELSE Bind(Polled(b, st, i, OutcomeAt(fault, i, "Poll2")),
           LAMBDA p : IF Failed(p) THEN PoolRet(p.st, p.res, p.ub)
                      ELSE IF p.inUse > 0 THEN Pass2(b, p.st, i + 1, data, fault)
                      ELSE PlayAudio(b, p.st, i, data, fault))

\* the lazy Audio_Init of the first loop
LazyInit(b, st, i, o) ==
    IF st.pool[i].count = 0
    THEN Step(st, i, "Init", Audio_Init(b, st.pool[i], st.hw[i], st.g, 1, o))
    ELSE [st |-> st, res |-> 0, ub |-> FALSE, inUse |-> 0]

\* the first loop of AudioPool_Play, from context i on
RECURSIVE Pass1(_, _, _, _, _)
Pass1(b, st, i, data, fault) ==
    IF i >= POOL_MAX_CONTEXTS THEN Pass2(b, st, 0, data, fault)
    ELSE Bind(LazyInit(b, st, i, OutcomeAt(fault, i, "Init")),
           LAMBDA n : IF Failed(n) THEN PoolRet(n.st, n.res, n.ub) ELSE
         Bind(Polled(b, n.st, i, OutcomeAt(fault, i, "Poll1")),
           LAMBDA p : IF Failed(p) THEN PoolRet(p.st, p.res, p.ub)
                      ELSE IF p.inUse > 0 THEN Pass1(b, p.st, i + 1, data, fault)
                      ELSE IF ~Audio_FastPlay(b, p.st.pool[i], data)
                      THEN Pass1(b, p.st, i + 1, data, fault)
                      ELSE PlayAudio(b, p.st, i, data, fault)))

AudioPool_Play(b, pool, hw, g, data, fault) ==
    Pass1(b, PoolState(pool, hw, g, <<>>, {}), 0, data, fault)

RECURSIVE CloseFrom(_, _, _)
CloseFrom(b, st, i) ==
    IF i >= POOL_MAX_CONTEXTS THEN PoolRet(st, 0, FALSE)
    ELSE Bind(Step(st, i, "Close", Audio_Close(b, st.pool[i], st.hw[i], st.g, NoFail)),
           LAMBDA c : CloseFrom(b, c.st, i + 1))

\* an AudioPool_Close that leaves context 0 open
AudioPool_Close_Skip0(b, pool, hw, g) == CloseFrom(b, PoolState(pool, hw, g, <<>>, {}), 1)

AudioPool_Close(b, pool, hw, g) == CloseFrom(b, PoolState(pool, hw, g, <<>>, {}), 0)

\* the sounds played through the pool, and the faults drawn
Sounds == {<<f[1], f[2], f[3], v, k>> : f \in inputs.formats, v \in inputs.volumes, k \in Chunks}
\* the calls of an AudioPool_Play that can fail, and the operation each is
FaultOps == {"Init", "Poll1", "Poll2", "SetFormat", "QueueChunk", "Play"}
BaseOp(op) == IF op \in {"Poll1", "Poll2"} THEN "Poll" ELSE op

\* one native call of one operation on one of the contexts ctxs fails
PoolFaults(ctxs) ==
    UNION {{[ctx |-> i, op |-> op, o |-> o] :
               o \in {x \in Outcomes(backend, BaseOp(op)) : x.at > 0}} :
           i \in ctxs, op \in FaultOps}

Faults ==
    {NoFault} \cup
    (IF backend \in {"OS2", "Null"}
     THEN {[NoFault EXCEPT !.o = [NoFail EXCEPT !.junk = 1]]} ELSE {}) \cup
    PoolFaults(inputs.faults)

PoolCalled(op, args, r) ==
    IF op \in watch
    THEN [op |-> op, args |-> args, res |-> r.res, inUse |-> Cardinality(r.busy),
          calls |-> r.calls,
          same |-> (~r.ub /\ r.pool = context_pool /\ r.hw = pool_hw /\ r.g = glob)]
    ELSE NoCall

PoolReturn(op, args, r) ==
    /\ last' = PoolCalled(op, args, r)
    /\ crashed' = r.ub
    /\ IF r.ub
       THEN UNCHANGED <<context_pool, pool_hw, glob>>
       ELSE /\ context_pool' = r.pool
            /\ pool_hw' = r.hw
            /\ glob' = r.g
    /\ UNCHANGED <<backend, watch, inputs, music_ctx, music_hw, pool_done, hist, engine, heap, fixed, threads>>

Pool_Play ==
    /\ ~crashed
    /\ \E data \in Sounds, fault \in Faults :
          PoolReturn("AudioPool_Play", data,
                     AudioPool_Play(backend, context_pool, pool_hw, glob, data, fault))

Pool_Close ==
    /\ ~crashed
    /\ PoolReturn("AudioPool_Close", <<>>, AudioPool_Close(backend, context_pool, pool_hw, glob))

\* the hardware finishes a buffer of a pooled context
Pool_Complete ==
    /\ ~crashed
    /\ pool_done < MaxPoolDone
    /\ \E i \in Pool : \E p \in Completions(backend, context_pool[i], pool_hw[i]) :
          /\ context_pool' = [context_pool EXCEPT ![i] = p[1]]
          /\ pool_hw' = [pool_hw EXCEPT ![i] = p[2]]
    /\ pool_done' = pool_done + 1
    /\ last' = NoCall
    /\ UNCHANGED <<backend, watch, inputs, music_ctx, music_hw, glob, crashed, hist, engine, heap, fixed, threads>>

NextPool ==
    \/ Pool_Play
    \/ Pool_Close
    \/ Pool_Complete

\* the sounds of the game played through the pool
PoolFormats == {<<1, 22050, 100>>, <<2, 44100, 100>>}

SpecPool == Start({"AudioPool_Play", "AudioPool_Close"}, {100}, PoolFormats) /\ [][NextPool]_vars

\* the pool playing one format when native calls on context 0 fail, the Null
\* backend included
SpecPoolFault ==
    StartWith(Backends \cup {"Null"}, {"AudioPool_Play", "AudioPool_Close"}, {100},
              {<<1, 22050, 100>>}, {1}, {0})
        /\ [][NextPool]_vars

(***************************************************************************)
(* The callers of Audio_AllocChunks keep the chunk arrays they were given  *)
(* and hand each back to Audio_FreeChunks once.                            *)
(***************************************************************************)
Chunks_Alloc ==
    /\ Cardinality(heap.held) < MaxHeld
    /\ \E size \in AllocSizes, numChunks \in 1..AUDIO_MAX_BUFFERS :
          \E dst \in {0} \cup FreeBases(heap.live, ChunkBytes(backend, size, numChunks)) :
             LET r == Audio_AllocChunks(backend, size, numChunks, dst)
             IN  /\ heap' = IF r.res = 0
                            THEN [live |-> heap.live \cup {r.block},
                                  held |-> heap.held \cup {[size |-> size, chunks |-> r.chunks]}]
                            ELSE heap
                 /\ last' = [op |-> "AllocChunks", args |-> <<size, numChunks>>,
                             res |-> r.res, inUse |-> 0, calls |-> <<>>, same |-> r.res # 0]
    /\ UNCHANGED <<backend, watch, inputs, music_ctx, music_hw, context_pool, pool_hw,
                   pool_done, glob, crashed, hist, engine, fixed, threads>>

Chunks_Free ==
    /\ \E a \in heap.held :
          /\ heap' = [live |-> Audio_FreeChunks(backend, heap.live, a.chunks),
                      held |-> heap.held \ {a}]
          /\ last' = [op |-> "FreeChunks", args |-> <<a.size, Len(a.chunks)>>, res |-> 0,
                      inUse |-> 0, calls |-> <<>>, same |-> FALSE]
    /\ UNCHANGED <<backend, watch, inputs, music_ctx, music_hw, context_pool, pool_hw,
                   pool_done, glob, crashed, hist, engine, fixed, threads>>

NextChunks ==
    \/ Chunks_Alloc
    \/ Chunks_Free

\* the callers of Audio_AllocChunks, on every backend
SpecChunks == StartOn(ChunkBackends, {}, {}, {}, {}) /\ [][NextChunks]_vars

(***************************************************************************)
(* The audio subsystem starts the backend up and shuts it down.            *)
(***************************************************************************)
Backend_Init ==
    /\ engine.inits < MaxInits
    /\ \E o \in EngineOutcomes(backend) :
          LET r == AudioBackend_Init(backend, engine.statics, o)
          IN  /\ engine' = [statics |-> r.e,
                            inits |-> engine.inits + 1,
                            succeeded |-> engine.succeeded \/ r.res,
                            created |-> IF r.res /\ r.calls # <<>>
                                        THEN engine.created + 1 ELSE engine.created,
                            failed |-> engine.failed \/ ~r.res,
                            warns |-> engine.warns + r.warns]
              /\ last' = [op |-> "AudioBackend_Init", args |-> <<>>,
                          res |-> IF r.res THEN 1 ELSE 0, inUse |-> 0, calls |-> r.calls,
                          same |-> r.e = engine.statics]
    /\ UNCHANGED <<backend, watch, inputs, music_ctx, music_hw, context_pool, pool_hw,
                   pool_done, glob, crashed, hist, heap, fixed, threads>>

Backend_Free ==
    /\ engine' = [engine EXCEPT !.statics = AudioBackend_Free(backend, @),
                                !.succeeded = FALSE, !.created = 0]
    /\ last' = [op |-> "AudioBackend_Free", args |-> <<>>, res |-> 0, inUse |-> 0,
                calls |-> FreeCalls(backend, engine.statics),
                same |-> AudioBackend_Free(backend, engine.statics) = engine.statics]
    /\ UNCHANGED <<backend, watch, inputs, music_ctx, music_hw, context_pool, pool_hw,
                   pool_done, glob, crashed, hist, heap, fixed, threads>>

NextBackend ==
    \/ Backend_Init
    \/ Backend_Free

\* the start-up and shutdown of every backend
SpecBackend == StartOn(EngineBackends, {}, {}, {}, {}) /\ [][NextBackend]_vars

(***************************************************************************)
(* The owners of the contexts of a fixed-channel backend.  Audio_Init is   *)
(* called on closed contexts only (Closed -> Open); as the contexts are    *)
(* interchangeable, on the lowest closed one or on the last one.  The last *)
(* context is given AUDIO_MAX_BUFFERS buffers, the others 1.               *)
(***************************************************************************)
ClosedContexts == {i \in FixedContexts : fixed.ctx[i].count = 0}

Fixed_Init ==
    /\ \E i \in ClosedContexts :
          /\ i = Lowest(ClosedContexts) \/ i = 24
          /\ LET buffers == IF i = 24 THEN AUDIO_MAX_BUFFERS ELSE 1
                 r == FC_Init(backend, fixed.ctx[i], fixed.channelIDs, buffers)
             IN  /\ fixed' = [fixed EXCEPT !.ctx[i] = r.c, !.channelIDs = r.ids]
                 /\ last' = [op |-> "Init", args |-> <<i, buffers>>, res |-> r.res,
                             inUse |-> 0, calls |-> r.calls,
                             same |-> r.c = fixed.ctx[i] /\ r.ids = fixed.channelIDs]
    /\ UNCHANGED <<backend, watch, inputs, music_ctx, music_hw, context_pool, pool_hw,
                   pool_done, glob, crashed, hist, engine, heap, threads>>

\* Audio_Close on an open context, or on the lowest closed one (never
\* initialised, or closed before)
Fixed_Close ==
    /\ \E i \in FixedContexts :
          /\ IF i \in ClosedContexts THEN i = Lowest(ClosedContexts)
             ELSE fixed.closes < MaxCloses
          /\ LET r == FC_Close(backend, fixed.ctx[i], fixed.channelIDs)
             IN
              /\ fixed' = [ctx |-> [fixed.ctx EXCEPT ![i] = r.c], channelIDs |-> r.ids,
                           closes |-> IF i \in ClosedContexts THEN fixed.closes
                                      ELSE fixed.closes + 1]
              /\ last' = [op |-> "Close", args |-> <<i>>, res |-> 0, inUse |-> 0,
                          calls |-> r.calls, same |-> FALSE]
    /\ UNCHANGED <<backend, watch, inputs, music_ctx, music_hw, context_pool, pool_hw,
                   pool_done, glob, crashed, hist, engine, heap, threads>>

NextFixed ==
    \/ Fixed_Init
    \/ Fixed_Close

\* the contexts of a fixed-channel backend
SpecFixed == StartOn(FixedBackends, {}, {}, {}, {}) /\ [][NextFixed]_vars

(***************************************************************************)
(* The Switch backend once started: the caller runs one operation at a     *)
(* time, step by step, while AudioBackend_Tick runs on its own thread.  A  *)
(* caller access made while audrvUpdate is in progress is a data race.     *)
(***************************************************************************)
Switch_Start ==
    /\ ~crashed
    /\ threads.caller = <<>> /\ threads.tick = "idle"
    /\ Backend_Init

Caller_Call ==
    /\ ~crashed
    /\ engine.statics.switchAudio
    /\ threads.caller = <<>>
    /\ \E op \in SwitchOps, some \in BOOLEAN :
          /\ SW_Steps(op, some) # <<>>
          /\ threads' = [threads EXCEPT !.caller = SW_Steps(op, some), !.op = op]
    /\ last' = NoCall
    /\ UNCHANGED <<backend, watch, inputs, music_ctx, music_hw, context_pool, pool_hw,
                   pool_done, glob, crashed, hist, engine, heap, fixed>>

Caller_Step ==
    /\ ~crashed
    /\ threads.caller # <<>>
    /\ LET step == Head(threads.caller)
       IN  /\ step = "Mutex_Lock" => threads.mutex = "none"
           /\ threads' = [threads EXCEPT
                             !.caller = Tail(@),
                             !.mutex = CASE step = "Mutex_Lock" -> "caller"
                                         [] step = "Mutex_Unlock" -> "none"
                                         [] OTHER -> @]
           /\ crashed' = (step \notin {"Mutex_Lock", "Mutex_Unlock"}
                          /\ threads.tick = "audrvUpdate")
           /\ last' = [op |-> threads.op, args |-> <<step>>, res |-> 0, inUse |-> 0,
                       calls |-> <<>>, same |-> TRUE]
    /\ UNCHANGED <<backend, watch, inputs, music_ctx, music_hw, context_pool, pool_hw,
                   pool_done, glob, hist, engine, heap, fixed>>

\* AudioBackend_Tick: Mutex_Lock, audrvUpdate begins, audrvUpdate ends,
\* Mutex_Unlock
Tick_Step ==
    /\ ~crashed
    /\ engine.statics.switchAudio
    /\ threads.tick = "idle" => threads.mutex = "none"
    /\ threads' = [threads EXCEPT
                      !.tick = CASE @ = "idle" -> "locked"
                                 [] @ = "locked" -> "audrvUpdate"
                                 [] @ = "audrvUpdate" -> "updated"
                                 [] @ = "updated" -> "idle",
                      !.mutex = CASE threads.tick = "idle" -> "tick"
                                  [] threads.tick = "updated" -> "none"
                                  [] OTHER -> @]
    /\ last' = NoCall
    /\ UNCHANGED <<backend, watch, inputs, music_ctx, music_hw, context_pool, pool_hw,
                   pool_done, glob, crashed, hist, engine, heap, fixed>>

NextSwitch ==
    \/ Switch_Start
    \/ Caller_Call
    \/ Caller_Step
    \/ Tick_Step

\* the two threads of the Switch backend
SpecSwitch == StartOn({"Switch"}, {}, {}, {}, {}) /\ [][NextSwitch]_vars

(***************************************************************************)
(* Properties.                                                             *)
(***************************************************************************)
\* every result Audio_QueueChunk can return on music_ctx in the current state
QueueResults ==
    {Audio_QueueChunk(backend, music_ctx, music_hw, glob, chunk, o) :
        chunk \in Chunks, o \in Outcomes(backend, "QueueChunk")}

\* every result Audio_Poll can return on music_ctx in the current state
PollResults ==
    {Audio_Poll(backend, music_ctx, music_hw, glob, o) : o \in Outcomes(backend, "Poll")}

\* C1: in the OpenAL and WinMM backends, Audio_QueueChunk on an initialised
\* context with no free slot returns ERR_INVALID_ARGUMENT and leaves the
\* struct and everything it points to (scratch block included) unchanged.
C1_QueueFullNoEffect ==
    (backend \in {"OpenAL", "WinMM"} /\ ~crashed /\ music_ctx.count > 0
        /\ FreeSlots(backend, music_ctx, music_hw) = 0)
    => \A r \in QueueResults :
          r.res = ERR_INVALID_ARGUMENT /\ r.c = music_ctx /\ r.h = music_hw

\* C2: each successful Audio_Poll leaves free slots + returned inUse equal to
\* the capacity given to Audio_Init.
C2_PollKeepsCapacity ==
    ~crashed =>
        \A r \in PollResults :
            r.res = 0 => FreeSlots(backend, r.c, r.h) + r.inUse = hist.capacity

\* C3: in the OpenAL backend, when the source reports k > 1 processed buffers,
\* one successful Audio_Poll moves all k back to the free list and returns
\* the number of buffers the source has not finished.
C3_PollReclaimsAll ==
    (backend = "OpenAL" /\ ~crashed /\ music_ctx.source # 0 /\ music_hw.processed > 1) =>
        \A r \in PollResults :
            r.res = 0 => /\ r.c.free = music_ctx.free + music_hw.processed
                         /\ r.inUse = Unfinished(backend, music_hw)

\* C4: Audio_Poll with no failing native call succeeds in every state, and
\* writes inUse = 0 when no chunk was queued since the last Audio_Init (or
\* the context was never initialised or has been closed).
C4_PollIdleZero ==
    ~crashed =>
        \A o \in Outcomes(backend, "Poll") :
            LET r == Audio_Poll(backend, music_ctx, music_hw, glob, o)
            IN  o.at = 0 => /\ ~r.ub
                            /\ r.res = 0
                            /\ hist.fresh => r.inUse = 0

CloseResults ==
    {Audio_Close(backend, music_ctx, music_hw, glob, o) : o \in Outcomes(backend, "Close")}

\* the struct names no native object and none is left behind
Released(b, c, h) ==
    CASE b = "OpenAL" -> c.source = 0 /\ ~h.live
      [] b = "WinMM" -> c.handle = 0 /\ ~h.open /\ h.lost = {}
      [] b = "OpenSLES" -> c.playerObject = 0 /\ ~h.exists
      [] b = "OS2" -> TRUE

Closed(b, c, h) ==
    /\ c.count = 0
    /\ FreeSlots(b, c, h) = 0
    /\ Unfinished(b, h) = 0
    /\ Released(b, c, h)
    /\ b = "WinMM" => /\ c.channels = 0 /\ c.sampleRate = 0
                      /\ c._tmpData = 0 /\ c._tmpSize = 0 /\ h.tmp = <<>>

\* C6: Audio_Close takes a context from any state to Closed, and a second
\* Audio_Close in a row changes nothing and releases nothing again.
C6_CloseIdempotent ==
    ~crashed =>
        \A r \in CloseResults :
            /\ Closed(backend, r.c, r.h)
            /\ \A o \in Outcomes(backend, "Close") :
                  LET r2 == Audio_Close(backend, r.c, r.h, r.g, o)
                  IN  r2.c = r.c /\ r2.h = r.h /\ r2.g = r.g /\ r2.calls = <<>>

\* native calls that close, destroy, open or create the device of a context
DeviceCalls == {"waveOutClose", "waveOutOpen", "Destroy", "CreateAudioPlayer", "Realize"}

\* C7: in WinMM and OpenSL ES, Audio_SetFormat with the arguments the context
\* is currently configured with returns success, does not close or reopen the
\* device and changes no state.
C7_SameFormatNoOp ==
    (backend \in {"WinMM", "OpenSLES"} /\ ~crashed /\ hist.format # <<>>) =>
        \A o \in Outcomes(backend, "SetFormat") :
            LET f == hist.format
                r == Audio_SetFormat(backend, music_ctx, music_hw, glob, f[1], f[2], f[3], o)
            IN  /\ ~r.ub /\ r.res = 0
                /\ r.c = music_ctx /\ r.h = music_hw /\ r.g = glob
                /\ SeqToSet(r.calls) \cap DeviceCalls = {}

\* a configured context with an open device was given its format again
C7_Witness ==
    /\ backend = "WinMM" /\ music_hw.open
    /\ last.op = "SetFormat" /\ last.args = hist.format
    /\ last.res = 0 /\ last.same /\ last.calls = <<>>

\* the sample rate the device of the context plays at
EffectiveRate(b, c, h, g) ==
    CASE b = "OpenAL" -> c.sampleRate
      [] b = "WinMM" -> c.sampleRate
      [] b = "OpenSLES" -> CDiv(c.sampleRate * h.rate, 1000)
      [] b = "OS2" -> g.ulSamplesPerSec

\* C8: a successful Audio_SetFormat(channels, sampleRate, playbackRate) leaves
\* the effective sample rate (sampleRate * playbackRate) / 100 in integers;
\* (2, 22050, 150) gives 33075 and playbackRate 100 gives sampleRate.
C8_EffectiveRate ==
    ~crashed =>
        \A f \in inputs.formats, o \in Outcomes(backend, "SetFormat") :
            LET r == Audio_SetFormat(backend, music_ctx, music_hw, glob, f[1], f[2], f[3], o)
                rate == EffectiveRate(backend, r.c, r.h, r.g)
            IN  (r.res = 0 /\ ~r.ub) =>
                    /\ rate = (f[2] * f[3]) \div 100
                    /\ f = <<2, 22050, 150>> => rate = 33075
                    /\ f[3] = 100 => rate = f[2]

\* SetFormat(2, 22050, 150) returned success and the context plays at 33075
C8_Witness ==
    /\ last.op = "SetFormat" /\ last.args = <<2, 22050, 150>> /\ last.res = 0
    /\ backend \in {"OpenAL", "WinMM"}
    /\ EffectiveRate(backend, music_ctx, music_hw, glob) = 33075

\* the format a context records as configured
ConfiguredFormat(b, c) ==
    CASE b = "OpenAL" -> <<c.format, c.sampleRate>>
      [] b \in {"WinMM", "OpenSLES"} -> <<c.channels, c.sampleRate>>
      [] b = "OS2" -> <<0, 0>>

\* C9: in WinMM and OpenSL ES, no Audio_SetFormat changes the configured
\* format of a context that has buffers in flight.
C9_NoFormatChangeInFlight ==
    (backend \in {"WinMM", "OpenSLES"} /\ ~crashed /\ Unfinished(backend, music_hw) > 0) =>
        \A f \in inputs.formats, o \in Outcomes(backend, "SetFormat") :
            LET r == Audio_SetFormat(backend, music_ctx, music_hw, glob, f[1], f[2], f[3], o)
            IN  ConfiguredFormat(backend, r.c) = ConfiguredFormat(backend, music_ctx)

\* every result AudioPool_Play can return in the current state
PlayResults ==
    {AudioPool_Play(backend, context_pool, pool_hw, glob, data, fault) :
        data \in Sounds, fault \in Faults}

\* operations PlayAudio issues on the context it plays on
PlayOps == {"SetVolume", "SetFormat", "QueueChunk", "Play"}

\* C10: when Audio_Poll reports every pooled context as in use,
\* AudioPool_Play returns 0, issues no SetVolume, SetFormat, QueueChunk or
\* Play on any context and leaves every pooled context unchanged.
C10_AllBusyDropped ==
    ~crashed =>
        \A r \in PlayResults :
            (~r.ub /\ r.busy = Pool) =>
                /\ r.res = 0
                /\ \A k \in DOMAIN r.calls : r.calls[k][2] \notin PlayOps
                /\ r.pool = context_pool /\ r.hw = pool_hw /\ r.g = glob

\* a sound was dropped: all 8 initialised contexts were reported in use
C10_Witness ==
    /\ last.op = "AudioPool_Play" /\ last.res = 0
    /\ last.inUse = POOL_MAX_CONTEXTS /\ last.same
    /\ \A i \in Pool : context_pool[i].count = 1

\* no pooled context was ever initialised
Untouched ==
    \A i \in Pool : context_pool[i] = ZeroCtx(backend) /\ pool_hw[i] = ZeroHw(backend)

\* the calls of a play that lazily initialises context 0 and plays on it
FreshPlayCalls ==
    << <<0, "Init">>, <<0, "Poll">>, <<0, "SetVolume">>, <<0, "SetFormat">>,
       <<0, "QueueChunk">>, <<0, "Play">> >>

\* C11: on a pool of 8 untouched contexts, AudioPool_Play of (channels 1,
\* sample rate 22050, rate 100, volume 80) returns 0, initialises context 0
\* with one buffer, sets its format, queues the chunk on it and starts
\* playback, and contexts 1..7 stay uninitialised.
C11_FreshPoolPlays ==
    (~crashed /\ Untouched) =>
        \A fault \in Faults :
            LET r == AudioPool_Play(backend, context_pool, pool_hw, glob,
                                    <<1, 22050, 100, 80, 1>>, fault)
            IN  /\ ~r.ub /\ r.res = 0
                /\ r.calls = FreshPlayCalls
                /\ r.pool[0].count = 1
                /\ Unfinished(backend, r.hw[0]) = 1
                /\ \A i \in Pool \ {0} :
                      r.pool[i] = ZeroCtx(backend) /\ r.hw[i] = ZeroHw(backend)

\* what the first loop of AudioPool_Play sees of context i in the current
\* state: the lazy Audio_Init and the Audio_Poll went through (ok), the
\* context reported nothing in use (idle), Audio_FastPlay holds (fast)
Seen(i, data, fault) ==
    LET n == LazyInit(backend, PoolState(context_pool, pool_hw, glob, <<>>, {}), i,
                      OutcomeAt(fault, i, "Init"))
        p == Polled(backend, n.st, i, OutcomeAt(fault, i, "Poll1"))
    IN  [ok |-> ~Failed(n) /\ ~Failed(p),
         idle |-> p.inUse = 0,
         fast |-> Audio_FastPlay(backend, p.st.pool[i], data),
         c |-> p.st.pool[i], h |-> p.st.hw[i], g |-> p.st.g]

\* the contexts a play issued SetVolume, SetFormat, QueueChunk or Play on
PlayedOn(r) ==
    {r.calls[k][1] : k \in {k \in DOMAIN r.calls : r.calls[k][2] \in PlayOps}}

\* the Audio_Poll calls a play made
PollCount(r) == Cardinality({k \in DOMAIN r.calls : r.calls[k][2] = "Poll"})

\* the context names a native device that exists
HasDevice(b, c, h) ==
    CASE b = "OpenAL" -> c.source # 0 /\ h.live
      [] b = "WinMM" -> c.handle # 0 /\ h.open
      [] b = "OpenSLES" -> c.playerObject # 0 /\ h.exists
      [] b = "OS2" -> FALSE

\* C12: the first loop of AudioPool_Play plays on the lowest-index context
\* that is idle and for which Audio_FastPlay holds (one Audio_Poll per context
\* up to it, no play on any other context); and when Audio_FastPlay holds for
\* a context with an open device, the Audio_SetFormat of that play neither
\* closes nor reopens the device.
C12_FastPathLowestIdle ==
    ~crashed =>
        \A data \in Sounds, fault \in Faults :
            Bind([i \in Pool |-> Seen(i, data, fault)], LAMBDA seen :
                LET r == AudioPool_Play(backend, context_pool, pool_hw, glob, data, fault)
                    cand == {i \in Pool : /\ \A j \in 0..i : seen[j].ok
                                          /\ seen[i].idle /\ seen[i].fast}
                IN  /\ cand # {} =>
                          LET m == CHOOSE i \in cand : \A j \in cand : i <= j
                          IN  PlayedOn(r) = {m} /\ PollCount(r) = m + 1
                    /\ \A i \in Pool :
                          (seen[i].ok /\ seen[i].fast
                              /\ HasDevice(backend, seen[i].c, seen[i].h)) =>
                              Bind(Audio_SetVolume(backend, seen[i].c, seen[i].h, seen[i].g,
                                                   data[4], NoFail), LAMBDA v :
                                  \A o \in Outcomes(backend, "SetFormat") :
                                      LET f == Audio_SetFormat(backend, v.c, v.h, v.g,
                                                               data[1], data[2], data[3], o)
                                      IN  /\ ~f.ub
                                          /\ SeqToSet(f.calls) \cap DeviceCalls = {}
                                          /\ HasDevice(backend, f.c, f.h)))

\* an idle WinMM context already open for (2, 44100) served a matching
\* request in the first loop: no Audio_Init, one Audio_Poll, success
C12_Witness ==
    /\ backend = "WinMM"
    /\ last.op = "AudioPool_Play" /\ last.res = 0
    /\ last.args[1] = 2 /\ last.args[2] = 44100
    /\ last.calls = << <<0, "Poll">>, <<0, "SetVolume">>, <<0, "SetFormat">>,
                       <<0, "QueueChunk">>, <<0, "Play">> >>
    /\ HasDevice(backend, context_pool[0], pool_hw[0])

\* the pooled contexts on which the hardware has no unfinished buffer
IdleContexts == {i \in Pool : Unfinished(backend, pool_hw[i]) = 0}

\* C13: the second loop of AudioPool_Play is reached only if the first found
\* no context both idle and a fast match; it then plays on the lowest-index
\* idle context whatever its format; a request is dropped (return 0, nothing
\* played) only when no pooled context is idle.
C13_Pass2LowestIdle ==
    ~crashed =>
        \A data \in Sounds, fault \in Faults :
            Bind(AudioPool_Play(backend, context_pool, pool_hw, glob, data, fault), LAMBDA r :
                /\ PollCount(r) > POOL_MAX_CONTEXTS =>
                      \A i \in Pool :
                          LET s == Seen(i, data, fault)
                          IN  ~(s.ok /\ s.idle /\ s.fast)
                /\ (~r.ub /\ PollCount(r) > POOL_MAX_CONTEXTS /\ IdleContexts # {}) =>
                      PlayedOn(r) = {CHOOSE i \in IdleContexts : \A j \in IdleContexts : i <= j}
                /\ (~r.ub /\ r.res = 0 /\ PlayedOn(r) = {}) => IdleContexts = {})

\* what the music context plays with: its struct, its native object and, in
\* the OS/2 backend, the format of the one mixer every context shares
MusicSide(b, c, h, g) ==
    IF b = "OS2" THEN <<c, h, g.ulChannels, g.ulSamplesPerSec, g.ulBitsPerSample>>
    ELSE <<c, h>>

\* every result of a pool operation in the current state
PoolResults == PlayResults \cup {AudioPool_Close(backend, context_pool, pool_hw, glob)}

\* C14: AudioPool_Play and AudioPool_Close leave the music context as its
\* caller left it: its struct, its native object and the format its device
\* plays at.
C14_PoolLeavesMusic ==
    ~crashed =>
        \A r \in PoolResults :
            ~r.ub => MusicSide(backend, music_ctx, music_hw, r.g)
                        = MusicSide(backend, music_ctx, music_hw, glob)

Adjusted(k, v) ==
    {AudioBase_AdjustSound([music_ctx EXCEPT !.volume = v], music_hw, k, o) :
        o \in Outcomes(backend, "QueueChunk")}

\* C16: at volume 100 the buffer handed to the backend is the caller's own,
\* unmodified, and scaling by 100 is the identity; at volume 0 the buffer
\* handed on holds 0 in every sample; for every chunk length.
C16_VolumeEnds ==
    (backend = "WinMM" /\ ~crashed) =>
        \A k \in DOMAIN ChunkSamples :
            LET n == Len(ChunkSamples[k])
            IN  /\ ApplyVolume(ChunkSamples[k], n, 100) = ChunkSamples[k]
                /\ ApplyVolume(ChunkSamples[k], n, 0) = [i \in 1..n |-> 0]
                /\ \A a \in Adjusted(k, 100) :
                      /\ a.ok /\ a.data = ChunkData(k) /\ a.size = ChunkSize(k)
                      /\ a.src = ChunkSamples[k]
                /\ \A a \in Adjusted(k, 0) :
                      /\ a.ok /\ a.data.kind = "tmp" /\ a.size = ChunkSize(k)
                      /\ \A i \in 1..n : a.h.tmp[i] = 0

\* a chunk of 9 samples was queued at volume 0: the header points to the
\* scratch block, which holds 9 zeros
C16_Witness ==
    /\ backend = "WinMM" /\ music_ctx.volume = 0
    /\ last.op = "QueueChunk" /\ last.args = <<4>> /\ last.res = 0
    /\ \E i \in 1..music_ctx.count : music_ctx.headers[i].lpData.kind = "tmp"
    /\ music_hw.tmp = [i \in 1..9 |-> 0]

\* volumes tried on every reachable context
VolumeSamples == {0, 1, 50, 99, 100}

Inside(p, size, blk) == blk.base <= p /\ p + size <= blk.base + blk.len

\* the backends that hand out chunks of exactly size bytes
Unaligned == ChunkBackends \ {"3DS", "Switch", "GCWii", "Dreamcast"}

\* C18: on every backend a successful Audio_AllocChunks(size, chunks, n)
\* writes n pointers base + i * stride with stride >= size (stride = size
\* where the backend does not align), every chunk lies inside the one block
\* allocated, no two chunks overlap, and Audio_FreeChunks releases that
\* block; so every chunk a caller holds lies inside a live block
C18_ChunksInOneBlock ==
    /\ \A a \in heap.held : \E blk \in heap.live :
          \A i \in DOMAIN a.chunks : Inside(a.chunks[i], a.size, blk)
    /\ \A size \in AllocSizes, n \in 1..AUDIO_MAX_BUFFERS :
          \A dst \in FreeBases(heap.live, ChunkBytes(backend, size, n)) :
             LET r == Audio_AllocChunks(backend, size, n, dst)
                 stride == ChunkStride(backend, size)
             IN  r.res = 0 =>
                    /\ Len(r.chunks) = n
                    /\ stride >= size
                    /\ backend \in Unaligned => stride = size
                    /\ \A i \in 1..n :
                          /\ r.chunks[i] = r.block.base + (i - 1) * stride
                          /\ Inside(r.chunks[i], size, r.block)
                    /\ \A i, j \in 1..n :
                          i # j => ~Overlap(r.chunks[i], size, r.chunks[j], size)
                    /\ Audio_FreeChunks(backend, heap.live \cup {r.block}, r.chunks) = heap.live

\* C18 on the backends other than GC/Wii
C18_ChunksInOneBlock_Others == backend # "GCWii" => C18_ChunksInOneBlock

\* a caller holds four chunks of 100 bytes, 100 bytes apart
C18_Witness ==
    /\ backend \in Unaligned
    /\ \E a \in heap.held :
          /\ a.size = 100
          /\ Len(a.chunks) = 4
          /\ \A i \in 1..3 : a.chunks[i + 1] = a.chunks[i] + 100

\* every result AudioBackend_Init can return in the current state
InitResults == {AudioBackend_Init(backend, engine.statics, o) : o \in EngineOutcomes(backend)}

\* C19: once AudioBackend_Init has returned success, every later call
\* (before a shutdown) returns success and issues no native call, and the
\* device is created at most once between shutdowns
C19_InitIdempotent ==
    /\ engine.created <= 1
    /\ engine.succeeded =>
          \A r \in InitResults : r.res /\ r.calls = <<>> /\ r.e = engine.statics

\* C19 on the backends that keep a flag or a handle of the device
C19_InitIdempotent_Guarded ==
    backend \in {"OpenAL", "WinMM", "OpenSLES", "Switch", "Null"} => C19_InitIdempotent

\* AudioBackend_Init has succeeded and is called again
C19_Witness ==
    /\ backend \in {"OpenAL", "OpenSLES", "Switch"}
    /\ engine.succeeded /\ engine.inits >= 2
    /\ last.op = "AudioBackend_Init" /\ last.res = 1 /\ last.calls = <<>>

\* C20: after AudioBackend_Init has returned failure, every later call
\* returns failure, issues no native call and logs nothing, and at most
\* one warning was logged
C20_FailureIsFinal ==
    /\ engine.warns <= 1
    /\ engine.failed =>
          \A r \in InitResults : ~r.res /\ r.calls = <<>> /\ r.warns = 0

\* C20 on the backends that never start up or never fail
C20_FailureIsFinal_Inert == backend \in {"WinMM", "GCWii", "Null"} => C20_FailureIsFinal

\* AudioBackend_Init of the Null backend has failed twice
C20_Witness ==
    backend = "Null" /\ engine.failed /\ engine.inits >= 2 /\ last.op = "AudioBackend_Init"

\* a native device, engine or driver of the backend exists
DeviceOpen(b, e) ==
    CASE b = "OpenAL" -> e.statics.audio_device # 0
      [] b = "OpenSLES" -> e.statics.slEngineObject # 0 \/ e.statics.slOutputObject # 0
      [] b = "Switch" -> e.statics.switchAudio
      [] OTHER -> e.created > 0

\* C21: AudioBackend_Free issues no native call while no device is open
\* (AudioBackend_Init never called, or failed before opening one), a second
\* AudioBackend_Free in a row issues none, and after it no handle is set
C21_FreeOnce ==
    LET calls == FreeCalls(backend, engine.statics)
        after == AudioBackend_Free(backend, engine.statics)
    IN  /\ ~DeviceOpen(backend, engine) => calls = <<>>
        /\ last.op = "AudioBackend_Free" => calls = <<>>
        /\ FreeCalls(backend, after) = <<>>
        /\ backend = "OpenAL" => after.audio_device = 0 /\ after.audio_context = 0
        /\ backend = "OpenSLES" =>
              after.slEngineObject = 0 /\ after.slEngineEngine = 0 /\ after.slOutputObject = 0

\* C21 on the backends whose AudioBackend_Free tests the handles, or does
\* nothing
C21_FreeOnce_Guarded ==
    backend \in {"OpenAL", "OpenSLES", "WinMM", "WebAudio", "3DS", "Null"} => C21_FreeOnce

\* AudioBackend_Free has released an OpenAL device whose context was never
\* created
C21_Witness ==
    /\ backend = "OpenAL"
    /\ last.op = "AudioBackend_Free"
    /\ last.calls = <<"alcMakeContextCurrent", "alcCloseDevice">>
    /\ engine.statics.audio_device = 0

OpenContexts == FixedContexts \ ClosedContexts
\* the channels held by open contexts
HeldChannels == {fixed.ctx[i].chanID : i \in OpenContexts}

Held(steps, k) ==
    \/ steps[k] \in {"Mutex_Lock", "Mutex_Unlock"}
    \/ \E l \in 1..(k - 1) :
          /\ steps[l] = "Mutex_Lock"
          /\ \A u \in l..k : steps[u] # "Mutex_Unlock"

\* C23: in the Switch backend every step of a caller operation that
\* accesses state shared with the driver update is taken holding
\* audrv_mutex, and no caller access is made while the audrvUpdate of
\* AudioBackend_Tick is in progress
C23_CallerHoldsMutex ==
    backend = "Switch" =>
        /\ ~crashed
        /\ \A op \in SwitchOps, some \in BOOLEAN :
              \A k \in DOMAIN SW_Steps(op, some) : Held(SW_Steps(op, some), k)
        /\ (threads.caller # <<>>
              /\ Head(threads.caller) \notin {"Mutex_Lock", "Mutex_Unlock"})
               => threads.mutex = "caller"

\* the one access that is made under the mutex: audrvVoiceAddWaveBuf of
\* Audio_QueueChunk
C23_AddWaveBufHeld ==
    (backend = "Switch" /\ threads.caller # <<>>
        /\ Head(threads.caller) = "audrvVoiceAddWaveBuf")
        => threads.mutex = "caller" /\ threads.tick \in {"idle"}

\* the caller has called audrvVoiceSetVolume while audrvUpdate was running
C23_Witness ==
    /\ backend = "Switch" /\ crashed
    /\ last.op = "SetVolume" /\ threads.tick = "audrvUpdate" /\ threads.mutex = "tick"

\* the first two parts of C24: ERR_NO_AUDIO_OUTPUT is returned exactly when
\* waveOutOpen fails with MMSYSERR_BADDEVICEID and waveOutGetNumDevs
\* returns 0; every other failure of waveOutOpen is returned unchanged
C24_OpenErrors ==
    (backend = "WinMM" /\ ~crashed) =>
        \A f \in inputs.formats, o \in Outcomes(backend, "SetFormat") :
            LET r == Audio_SetFormat(backend, music_ctx, music_hw, glob, f[1], f[2], f[3], o)
                opened == \E k \in DOMAIN r.calls : r.calls[k] = "waveOutOpen"
                nodev == opened /\ o.at = 1 /\ o.err = MMSYSERR_BADDEVICEID /\ o.devs = 0
            IN  /\ r.res = ERR_NO_AUDIO_OUTPUT <=> nodev
                /\ (opened /\ o.at = 1 /\ ~nodev) => r.res = o.err

\* C24: WinMM Audio_SetFormat returns ERR_NO_AUDIO_OUTPUT exactly when
\* waveOutOpen fails with MMSYSERR_BADDEVICEID and there is no output
\* device, returns every other failure of waveOutOpen unchanged, and
\* returns success only with the device open in the format asked for
C24_NoOutputDistinguished ==
    /\ C24_OpenErrors
    /\ (backend = "WinMM" /\ ~crashed) =>
          \A f \in inputs.formats, o \in Outcomes(backend, "SetFormat") :
              LET r == Audio_SetFormat(backend, music_ctx, music_hw, glob, f[1], f[2], f[3], o)
              IN  r.res = 0 =>
                     /\ r.c.handle # 0 /\ r.h.open
                     /\ r.h.fmt = <<f[1], Audio_AdjustSampleRate(f[2], f[3])>>

\* waveOutOpen has failed for lack of an output device
C24_Witness ==
    /\ backend = "WinMM"
    /\ last.op = "SetFormat" /\ last.res = ERR_NO_AUDIO_OUTPUT
    /\ music_ctx.handle = 0

\* the sounds and the faults the pool is examined with in every state: both
\* formats, and a failure of any call on any pooled context
AnySound == {<<f[1], f[2], f[3], 100, 1>> : f \in PoolFormats}
AnyFault == Faults \cup PoolFaults(Pool)

PlaySteps == <<"SetVolume", "SetFormat", "QueueChunk", "Play">>

\* the calls of PlayAudio in r are its last m calls, are made in order on one
\* context, all but the last returned 0, and r returns what the last returned
InOrder(r) ==
    LET n == Len(r.calls)
        P == {k \in 1..n : r.calls[k][2] \in {"SetVolume", "SetFormat", "QueueChunk", "Play"}}
    IN  \/ P = {} /\ "QueueChunk" \notin {r.calls[k][2] : k \in 1..n}
        \/ LET k0 == Lowest(P)
               m == n - k0 + 1
           IN  /\ P = k0..n
               /\ m \in 2..4
               /\ \A k \in k0..n : r.calls[k] = <<r.calls[k0][1], PlaySteps[k - k0 + 1]>>
               /\ \A k \in k0..(n - 1) : r.codes[k] = 0
               /\ r.res = r.codes[n]
               /\ m < 4 => r.res # 0

\* C25: a sound AudioPool_Play plays goes through Audio_SetVolume,
\* Audio_SetFormat, Audio_QueueChunk, Audio_Play in that order on one
\* context; the first of the last three to fail ends the call, which makes
\* no further call on any context and returns that error
C25_PlayInOrder ==
    ~crashed =>
        \A data \in AnySound, fault \in AnyFault :
            Bind(AudioPool_Play(backend, context_pool, pool_hw, glob, data, fault),
                 LAMBDA r : ~r.ub => InOrder(r))

\* Audio_QueueChunk on context 0 has failed and AudioPool_Play returned its
\* error
C25_Witness ==
    /\ last.op = "AudioPool_Play" /\ last.res # 0
    /\ Len(last.calls) >= 3
    /\ SubSeq(last.calls, Len(last.calls) - 2, Len(last.calls))
          = <<(<<0, "SetVolume">>), (<<0, "SetFormat">>), (<<0, "QueueChunk">>)>>

\* an Audio_Init or Audio_Poll of r that failed is the last call of r, r
\* returns its error and no chunk was queued
FailFast(r) ==
    \A k \in 1..Len(r.calls) :
        (r.calls[k][2] \in {"Init", "Poll"} /\ r.codes[k] # 0) =>
            /\ k = Len(r.calls)
            /\ r.res = r.codes[k]
            /\ \A j \in 1..k : r.calls[j][2] # "QueueChunk"

\* C26: when an Audio_Init or Audio_Poll fails in either loop of
\* AudioPool_Play, the call returns that error at once: it queues no chunk
\* and makes no call on the contexts after the failing one
C26_InitPollFailFast ==
    ~crashed =>
        \A data \in AnySound, fault \in AnyFault :
            Bind(AudioPool_Play(backend, context_pool, pool_hw, glob, data, fault),
                 LAMBDA r : ~r.ub => FailFast(r))

\* Audio_Poll on context 0 has failed in a pool that played before, and
\* AudioPool_Play made no further call
C26_Witness ==
    /\ last.op = "AudioPool_Play" /\ last.res # 0
    /\ last.calls = <<(<<0, "Poll">>)>>
    /\ context_pool[0].count # 0
\* the range of cc_int16 and the volumes of the software path
Int16 == -32768..32767
Percent == 0..100
Abs(x) == IF x < 0 THEN -x ELSE x

\* ApplyVolume on the first count samples of chunk k gives sample * volume /
\* 100 truncated toward zero below count and the sample itself from count on
ScaledTo(k, count, v) ==
    Bind(ApplyVolume(ChunkSamples[k], count, v),
         LAMBDA out :
             /\ DOMAIN out = DOMAIN ChunkSamples[k]
             /\ \A i \in DOMAIN out :
                   out[i] = IF i <= count THEN CDiv(ChunkSamples[k][i] * v, 100)
                            ELSE ChunkSamples[k][i])

\* C27: ApplyVolume replaces each of the first count samples exactly once by
\* sample * volume / 100 truncated toward zero and leaves the samples at
\* index >= count alone, for every chunk and every count up to its length,
\* at the volume of the context in every reachable state and at every volume
\* in 0..100 before the first call; and for every int16 sample and every
\* volume in 0..100 the value stored is the C integer value itself, inside
\* the int16 range and no larger in magnitude than the sample (the sweeps
\* over all volumes and all 65536 samples are facts about the operators
\* alone and are made once, before the first call).
C27_ScaledOnce ==
    (backend = "WinMM" /\ ~crashed) =>
        /\ \A k \in DOMAIN ChunkSamples : \A count \in 0..Len(ChunkSamples[k]) :
              ScaledTo(k, count, music_ctx.volume)
        /\ (last = NoCall /\ music_ctx = ZeroCtx(backend)) =>
              /\ \A k \in DOMAIN ChunkSamples :
                    \A count \in 0..Len(ChunkSamples[k]), v \in Percent :
                        ScaledTo(k, count, v)
              /\ \A s \in Int16, v \in Percent :
                    Bind(ScaleSample(s, v),
                         LAMBDA x : /\ x = CDiv(s * v, 100)
                                    /\ x \in Int16
                                    /\ Abs(x) <= Abs(s))

\* a chunk of 9 samples was queued at volume 50: the scratch block holds each
\* sample halved toward zero, the ninth through the remainder loop
C27_Witness ==
    /\ backend = "WinMM" /\ music_ctx.volume = 50
    /\ last.op = "QueueChunk" /\ last.args = <<4>> /\ last.res = 0
    /\ music_hw.tmp = <<-16384, 16383, 0, 0, 49, -49, 125, -125, 1>>

\* the allocator returns NULL
NoMem == [NoFail EXCEPT !.at = 3, !.err = ERR_OUT_OF_MEMORY]

\* the Audio_QueueChunk calls on the open context that have to grow the
\* scratch block, made with an allocator that returns NULL
StarvedQueues ==
    IF music_ctx.count > 0 /\ music_ctx.volume < 100
    THEN {Audio_QueueChunk(backend, music_ctx, music_hw, glob, k, NoMem) :
             k \in {x \in DOMAIN ChunkSamples : music_ctx._tmpSize < ChunkSize(x)}}
    ELSE {}

\* C29: in WinMM, when growing the scratch block fails for lack of memory,
\* Audio_QueueChunk returns ERR_OUT_OF_MEMORY, queues nothing, writes
\* through no null pointer and leaves _tmpData and _tmpSize as they were.
C29_NoMemReported ==
    (backend = "WinMM" /\ ~crashed) =>
        \A r \in StarvedQueues :
            /\ ~r.ub
            /\ r.res = ERR_OUT_OF_MEMORY
            /\ r.h = music_hw
            /\ r.c._tmpData = music_ctx._tmpData
            /\ r.c._tmpSize = music_ctx._tmpSize

\* what the code does instead: NULL and the new size are stored, nothing is
\* queued, and the copy goes through the null pointer
C29_NoMemDereferenced ==
    (backend = "WinMM" /\ ~crashed) =>
        \A r \in StarvedQueues :
            /\ r.ub
            /\ r.h = music_hw
            /\ r.c._tmpData = 0
            /\ r.c._tmpSize > music_ctx._tmpSize

\* the scratch block of 6 bytes was to grow and the allocator returned NULL
C29_Witness ==
    /\ backend = "WinMM" /\ crashed
    /\ last.op = "QueueChunk" /\ last.args = <<4>>
    /\ last.calls = <<"Mem_TryRealloc">>

\* the allocator calls among the native calls of r
AllocCalls(r) ==
    {i \in DOMAIN r.calls : r.calls[i] \in {"Mem_TryAlloc", "Mem_TryRealloc"}}

\* what Audio_QueueChunk of chunk k at volume v does to the scratch block of
\* music_ctx: at volume >= 100 nothing, and the header taken points to the
\* caller's chunk; below 100 the size is at least the chunk's afterwards and
\* a chunk that fits is copied without an allocator call
ScratchAfter(k, v) ==
    \A o \in Outcomes(backend, "QueueChunk") :
        Bind(Audio_QueueChunk(backend, [music_ctx EXCEPT !.volume = v], music_hw, glob, k, o),
             LAMBDA r :
                 /\ ~r.ub
                 /\ r.c._tmpSize >= music_ctx._tmpSize
                 /\ v >= 100 =>
                       /\ r.c._tmpSize = music_ctx._tmpSize
                       /\ r.c._tmpData = music_ctx._tmpData
                       /\ r.h.tmp = music_hw.tmp
                       /\ AllocCalls(r) = {}
                       /\ r.res = 0 =>
                             \E i \in 1..r.c.count :
                                 /\ r.c.headers[i] # music_ctx.headers[i]
                                 /\ r.c.headers[i].lpData = ChunkData(k)
                 /\ v < 100 =>
                       /\ r.c._tmpSize >= ChunkSize(k)
                       /\ ChunkSize(k) <= music_ctx._tmpSize =>
                             /\ AllocCalls(r) = {}
                             /\ r.c._tmpSize = music_ctx._tmpSize
                             /\ r.c._tmpData = music_ctx._tmpData)

ScratchSteps ==
    (backend = "WinMM" /\ ~crashed) =>
        \A k \in DOMAIN ChunkSamples, v \in {0, 50, 100} : ScratchAfter(k, v)

\* the scratch size after every successful Audio_QueueChunk at the volume of
\* music_ctx, when that volume is below 100 and no call was made on the
\* closed context, is the larger of size(k) and the largest size in sizes
LargestAfter(sizes) ==
    (backend = "WinMM" /\ ~crashed /\ music_ctx.volume < 100 /\ ~hist.stray) =>
        \A k \in DOMAIN ChunkSamples, o \in Outcomes(backend, "QueueChunk") :
            Bind(Audio_QueueChunk(backend, music_ctx, music_hw, glob, k, o),
                 LAMBDA r :
                     (~r.ub /\ r.res = 0) =>
                         /\ r.c._tmpSize >= ChunkSize(k)
                         /\ r.c._tmpSize = IF sizes < ChunkSize(k) THEN ChunkSize(k) ELSE sizes)

\* the open context does not lose scratch size in a step
NoShrink ==
    (music_ctx.count > 0 /\ music_ctx'.count > 0) => music_ctx'._tmpSize >= music_ctx._tmpSize

FreeList(c) == {c.freeIDs[i] : i \in 1..c.free}

\* no buffer of the context is both free and queued, and none is free twice
Disjoint(c, h) ==
    /\ Cardinality(FreeList(c)) = c.free
    /\ Cardinality(SeqToSet(h.queued)) = Len(h.queued)
    /\ FreeList(c) \cap SeqToSet(h.queued) = {}
    /\ FreeList(c) \cup SeqToSet(h.queued) \subseteq {c.buffers[i] : i \in 1..c.count}

\* C30: in OpenAL, in every reachable state of an initialised context, also
\* after a native error inside Audio_QueueChunk or Audio_Poll, each buffer
\* is either in the free list or queued on the source, never both and never
\* neither: free plus the number of queued buffers equals count and the free
\* list holds no duplicates.
C30_BuffersPartitioned ==
    (backend = "OpenAL" /\ ~crashed /\ hist.inited) =>
        /\ Disjoint(music_ctx, music_hw)
        /\ music_ctx.free + Len(music_hw.queued) = music_ctx.count

\* what the code keeps: no buffer is both free and queued or free twice, and
\* free plus queued never exceeds count; a slot taken by an Audio_QueueChunk
\* that failed in alBufferData or alSourceQueueBuffers is in neither
C30_BuffersNeverShared ==
    (backend = "OpenAL" /\ ~crashed /\ hist.inited) =>
        /\ Disjoint(music_ctx, music_hw)
        /\ music_ctx.free + Len(music_hw.queued) <= music_ctx.count
        /\ (last.op = "QueueChunk" /\ last.res # 0 /\ last.calls # <<>>) =>
              music_ctx.free + Len(music_hw.queued) < music_ctx.count

\* an Audio_QueueChunk failed in alSourceQueueBuffers on a context of 2
\* buffers: one buffer is free, none is queued
C30_Witness ==
    /\ backend = "OpenAL" /\ hist.inited /\ music_ctx.count = 2
    /\ last.op = "QueueChunk" /\ last.res # 0
    /\ last.calls = <<"alBufferData", "alSourceQueueBuffers">>
    /\ music_ctx.free = 1 /\ music_hw.queued = <<>>

\* the native call that opens the device or player of the backend
OpenCall == IF backend = "WinMM" THEN "waveOutOpen" ELSE "CreateAudioPlayer"

\* C31: in WinMM and OpenSL ES a context that records a non-zero format has
\* an open device or player of that format; after an Audio_SetFormat that
\* failed, the same Audio_SetFormat again attempts the open instead of
\* returning success with no device.
C31_FormatHasDevice ==
    (backend \in {"WinMM", "OpenSLES"} /\ ~crashed) =>
        /\ ConfiguredFormat(backend, music_ctx) # <<0, 0>> =>
              /\ HasDevice(backend, music_ctx, music_hw)
              /\ music_hw.fmt = ConfiguredFormat(backend, music_ctx)
        /\ (last.op = "SetFormat" /\ last.res # 0) =>
              \A o \in Outcomes(backend, "SetFormat") :
                  Bind(Audio_SetFormat(backend, music_ctx, music_hw, glob,
                                       last.args[1], last.args[2], last.args[3], o),
                       LAMBDA r : /\ ~r.ub
                                  /\ \E k \in DOMAIN r.calls : r.calls[k] = OpenCall)

\* what the code keeps: a device or player that exists was opened in the
\* format the context records
C31_DeviceHasFormat ==
    (backend \in {"WinMM", "OpenSLES"} /\ ~crashed
        /\ HasDevice(backend, music_ctx, music_hw)) =>
            music_hw.fmt = ConfiguredFormat(backend, music_ctx)

\* waveOutOpen or CreateAudioPlayer has failed: the format asked for is
\* recorded and there is no device
C31_Witness ==
    /\ backend \in {"WinMM", "OpenSLES"}
    /\ last.op = "SetFormat" /\ last.res # 0 /\ last.calls # <<>>
    /\ ConfiguredFormat(backend, music_ctx) # <<0, 0>>
    /\ ~HasDevice(backend, music_ctx, music_hw)

\* the slots of music_ctx the device still plays from the scratch block
InFlightScratch ==
    {i \in SeqToSet(music_hw.queue) : music_ctx.headers[i].lpData.kind = "tmp"}

\* samples every queued chunk has: the length of the shortest chunk
MinLen ==
    LET lens == {Len(ChunkSamples[k]) : k \in DOMAIN ChunkSamples}
    IN  CHOOSE n \in lens : \A m \in lens : n <= m

\* C32: in WinMM, with volume < 100 and a context of more than one buffer,
\* an Audio_QueueChunk made while an earlier chunk is in flight does not
\* overwrite, move or reallocate the data the earlier slot points to: the
\* slot points to the live block, no reallocation is made and the samples
\* every chunk has are the same after the call.
C32_InFlightDataKept ==
    (backend = "WinMM" /\ ~crashed /\ music_ctx.count > 1 /\ music_ctx.volume < 100) =>
        \A i \in InFlightScratch :
            /\ music_ctx.headers[i].lpData.at = music_ctx._tmpData
            /\ \A k \in Chunks, o \in Outcomes(backend, "QueueChunk") :
                  Bind(Audio_QueueChunk(backend, music_ctx, music_hw, glob, k, o),
                       LAMBDA r :
                           /\ ~r.ub
                           /\ r.c._tmpData = music_ctx._tmpData
                           /\ \A n \in DOMAIN r.calls : r.calls[n] # "Mem_TryRealloc"
                           /\ \A j \in 1..MinLen : r.h.tmp[j] = music_hw.tmp[j])

\* what the code keeps: at volume >= 100 an Audio_QueueChunk leaves the
\* scratch block and its samples alone, whatever is in flight
C32_KeptAtFullVolume ==
    (backend = "WinMM" /\ ~crashed /\ music_ctx.volume >= 100) =>
        \A k \in Chunks, o \in Outcomes(backend, "QueueChunk") :
            Bind(Audio_QueueChunk(backend, music_ctx, music_hw, glob, k, o),
                 LAMBDA r : ~r.ub /\ r.c._tmpData = music_ctx._tmpData /\ r.h.tmp = music_hw.tmp)

\* two slots are in flight at volume 50 and both point to the scratch
\* block, which holds the samples of the chunk queued last
C32_Witness ==
    /\ backend = "WinMM" /\ music_ctx.volume = 50 /\ music_ctx.count = 2
    /\ last.op = "QueueChunk" /\ last.res = 0
    /\ Cardinality(InFlightScratch) = 2

\* a pooled context is Closed: no capacity and, in OpenAL, no source and no
\* free slot
IsClosed(b, c) ==
    /\ c.count = 0
    /\ b = "OpenAL" => c.source = 0 /\ c.free = 0

\* every context whose lazy Audio_Init failed in the AudioPool_Play r is
\* Closed when the call returns
InitFailedClosed(r) ==
    \A k \in DOMAIN r.calls :
        (r.calls[k][2] = "Init" /\ r.codes[k] # 0) => IsClosed(backend, r.pool[r.calls[k][1]])

\* C33: a pooled context whose Audio_Init returned an error stays Closed
\* (count 0, no source, no free slots), so the lazy-init test of the next
\* AudioPool_Play runs Audio_Init on it again: no context of the pool has
\* capacity without a free or a queued slot behind it.
C33_FailedInitStaysClosed ==
    ~crashed =>
        \A data \in AnySound, fault \in AnyFault :
            Bind(AudioPool_Play(backend, context_pool, pool_hw, glob, data, fault),
                 LAMBDA r : ~r.ub => InitFailedClosed(r))

\* what the code keeps: outside OpenAL a failed Audio_Init leaves the context
\* Closed, and in OpenAL it leaves count at 1 with no free slot
C33_FailedInitOpenAL ==
    ~crashed =>
        \A data \in AnySound, fault \in AnyFault :
            Bind(AudioPool_Play(backend, context_pool, pool_hw, glob, data, fault),
                 LAMBDA r :
                     ~r.ub =>
                         \A k \in DOMAIN r.calls :
                             (r.calls[k][2] = "Init" /\ r.codes[k] # 0) =>
                                 IF backend = "OpenAL"
                                 THEN /\ r.pool[r.calls[k][1]].count = 1
                                      /\ r.pool[r.calls[k][1]].free = 0
                                 ELSE IsClosed(backend, r.pool[r.calls[k][1]]))

\* the Audio_Init of pooled context 0 failed in OpenAL and a later
\* AudioPool_Play did not run it again
C33_Witness ==
    /\ backend = "OpenAL" /\ context_pool[0].count = 1 /\ context_pool[0].free = 0
    /\ pool_hw[0].queued = <<>>
    /\ last.op = "AudioPool_Play" /\ Len(last.calls) > 0 /\ last.calls[1] # <<0, "Init">>

QueuedOnIdle(r) ==
    \A k \in DOMAIN r.calls :
        r.calls[k][2] = "QueueChunk" =>
            LET i == r.calls[k][1]
            IN  /\ \E j \in 1..(k - 1) : r.calls[j] = <<i, "Poll">> /\ r.codes[j] = 0
                /\ i \notin r.busy
                /\ r.codes[k] # ERR_INVALID_ARGUMENT
                /\ r.codes[k] = 0 => Unfinished(backend, pool_hw[i]) = 0

\* C37: AudioPool_Play issues Audio_QueueChunk only on a context whose
\* Audio_Poll in the same call reported inUse 0, and on such a context
\* Audio_QueueChunk finds a free slot: after any sequence of pool plays and
\* completions a play never fails with ERR_INVALID_ARGUMENT for lack of a
\* slot and never queues a chunk on a context that has one in flight.
C37_IdleHasSlot ==
    ~crashed =>
        \A data \in AnySound, fault \in AnyFault :
            Bind(AudioPool_Play(backend, context_pool, pool_hw, glob, data, fault),
                 LAMBDA r : ~r.ub => QueuedOnIdle(r))

\* what the code keeps: the same, as long as no native call has failed
C37_IdleHasSlotNoFault ==
    ~crashed =>
        \A data \in Sounds, fault \in Faults :
            Bind(AudioPool_Play(backend, context_pool, pool_hw, glob, data, fault),
                 LAMBDA r : ~r.ub => QueuedOnIdle(r))

\* a play on the OpenAL context whose Audio_Init had failed in alGenSources:
\* Audio_Poll reported it idle and Audio_QueueChunk found no slot
C37_Witness ==
    /\ backend = "OpenAL" /\ last.op = "AudioPool_Play"
    /\ last.res = ERR_INVALID_ARGUMENT
    /\ Len(last.calls) >= 2 /\ last.calls[1] = <<0, "Poll">>
    /\ last.calls[Len(last.calls)] = <<0, "QueueChunk">>

(***************************************************************************)
(* The ring backends.                                                      *)
(***************************************************************************)
Slots == 1..AUDIO_MAX_BUFFERS

\* the GC/Wii streaming context of capacity 2 and more
Streaming == backend = "GCWii" /\ ~crashed /\ music_ctx.count >= 2

\* the slots a MusicCallback in this state marks available
Marked(r) == {i \in Slots : r.c.bufs[i].available /\ ~music_ctx.bufs[i].available}

MarksBelowCount ==
    (Streaming /\ music_hw.callback) =>
        Bind(MusicCallback(music_ctx, music_hw),
             LAMBDA r : ~r.ub => \A i \in Marked(r) : i <= music_ctx.count)

\* slot i holds a chunk while the voice plays and calls back
Playing(i) ==
    /\ Streaming /\ i <= music_ctx.count
    /\ ~music_ctx.bufs[i].available /\ music_ctx.bufs[i].samples # 0
    /\ music_hw.working /\ music_hw.callback

\* slot i is free again, or the voice has stopped or the context was closed
SlotReleased(i) ==
    backend = "GCWii" =>
        \/ music_ctx.bufs[i].available
        \/ ~music_hw.working
        \/ music_ctx.count = 0

\* C35: in the GC/Wii backend, for a streaming context of any capacity n with
\* 2 <= n <= AUDIO_MAX_BUFFERS, MusicCallback marks available only slots of
\* index below n, and every queued slot is eventually marked available (so
\* Audio_Poll reports it free) as long as the voice keeps playing and the
\* callback keeps being called.
C35_QueuedSlotsReleased ==
    /\ []MarksBelowCount
    /\ \A i \in Slots : Playing(i) ~> SlotReleased(i)

\* what the code keeps: the same for the capacity AUDIO_MAX_BUFFERS
C35_ReleasedAtFullCapacity ==
    \A i \in Slots :
        (Playing(i) /\ music_ctx.count = AUDIO_MAX_BUFFERS) ~> SlotReleased(i)

\* a voice that keeps playing a context of capacity 2, both slots queued and
\* the ring head back at slot 0
C35_Witness ==
    /\ Streaming /\ music_ctx.count = 2
    /\ Playing(1) /\ Playing(2)
    /\ music_hw.handed = {1, 2} /\ music_hw.chained /\ music_ctx.bufHead = 0

\* the callback of a context of capacity 3 marked the slot of index 3
C35_MarkedOutside ==
    /\ Streaming /\ music_ctx.count = 3
    /\ music_ctx.bufs[4].available

\* the chunks that wait in a slot of c and were not given to the hardware
Waiting(c, h) ==
    {c.bufs[i].samples : i \in {j \in Slots : j <= c.count /\ ~c.bufs[j].available}}
        \ (h.handed \cup {0})

\* no chunk was given to the hardware while one accepted before it waits
InQueueOrder(c, h) == \A x \in Waiting(c, h) : \A y \in h.handed : y < x

\* C36: in the callback-driven ring backends (Dreamcast, GC/Wii) the hardware
\* callback consumes the chunks in the order in which Audio_QueueChunk
\* accepted them, for every interleaving of Audio_QueueChunk calls and
\* callbacks: no chunk queued later is played before a chunk queued earlier.
C36_ConsumedInQueueOrder ==
    (backend \in RingBackends /\ ~crashed) => InQueueOrder(music_ctx, music_hw)

\* what the code keeps: the slot the callback takes next is the one after
\* the slot it took last, in ring order
C36_HeadInRingOrder ==
    (backend \in RingBackends /\ ~crashed /\ music_ctx.count > 0) =>
        /\ music_ctx.bufHead \in 0..(music_ctx.count - 1)
        /\ Bind(IF backend = "GCWii" THEN MusicCallback(music_ctx, music_hw)
                ELSE AudioCallback(music_ctx, music_hw),
                LAMBDA r : r.c.bufHead \in {music_ctx.bufHead,
                                            (music_ctx.bufHead + 1) % music_ctx.count})

\* Dreamcast: the stream was given chunk 3 while chunk 2, accepted before
\* it, waits in a slot behind the ring head
C36_Witness ==
    /\ backend = "Dreamcast" /\ music_hw.handed = {1, 3}
    /\ \E i \in Slots : ~music_ctx.bufs[i].available /\ music_ctx.bufs[i].samples = 2

(***************************************************************************)
(* Slot indices.                                                           *)
(***************************************************************************)
\* the buffer counts a caller of Audio_Init can pass
AnyCount == 1..(AUDIO_MAX_BUFFERS + 1)

\* Audio_Init with that count and no failing call stays inside the arrays
InitInside(buffers) ==
    Bind(Audio_Init(backend, music_ctx, music_hw, glob, buffers, NoFail),
         LAMBDA r : ~r.ub)

\* Audio_Poll stays inside the free list
PollInside ==
    \A o \in Outcomes(backend, "Poll") :
        Bind(Audio_Poll(backend, music_ctx, music_hw, glob, o), LAMBDA r : ~r.ub)

\* C38: in every reachable state of a context 0 <= count <= AUDIO_MAX_BUFFERS;
\* in the OpenAL backend 0 <= free <= count, so Audio_Poll never writes a
\* reclaimed buffer past the end of the free list, and Audio_Init with a
\* buffer count above AUDIO_MAX_BUFFERS does not write outside the slot
\* arrays.
C38_IndicesWithinCount ==
    (backend = "OpenAL" /\ ~crashed) =>
        /\ music_ctx.count \in 0..AUDIO_MAX_BUFFERS
        /\ music_ctx.free \in 0..music_ctx.count
        /\ PollInside
        /\ \A buffers \in AnyCount : InitInside(buffers)

\* what the code keeps: with counts up to AUDIO_MAX_BUFFERS count and free
\* stay within the arrays and neither Audio_Init nor Audio_Poll writes
\* outside them
C38_WithinArrays ==
    (backend = "OpenAL" /\ ~crashed) =>
        /\ music_ctx.count \in 0..AUDIO_MAX_BUFFERS
        /\ music_ctx.free \in 0..AUDIO_MAX_BUFFERS
        /\ PollInside
        /\ \A buffers \in 1..AUDIO_MAX_BUFFERS : InitInside(buffers)

\* an OpenAL context whose free list was refilled by Audio_Poll: both
\* buffers were queued, played and reclaimed in queue order
C38_Witness ==
    /\ backend = "OpenAL" /\ ~crashed
    /\ music_ctx.count = 2 /\ music_ctx.free = 2
    /\ music_ctx.freeIDs[1] = music_ctx.buffers[2]
    /\ music_ctx.freeIDs[2] = music_ctx.buffers[1]

====
